---- MODULE Spec2Model ----
(***************************************************************************)
(* Signal lifecycle engine of cryptomaxa: the scheduler (SignalScheduler), *)
(* the processing cycle (SignalManager.fetch_and_process_all_signals), the *)
(* upsert engine (SignalProcessor) and the execution state machine         *)
(* (SignalValidator), over one store of signal rows.                       *)
(*                                                                         *)
(* Numbers: a price is an integer; 0 stands for None (the code tests the   *)
(* optional numeric fields by truthiness, so None and 0.0 take the same    *)
(* branch), but for the confidence the parser hands to the analyzer, which *)
(* tells None (written None) from 0.0.  The store keeps prices as Numeric(18, 8): a value  *)
(* that the column cannot hold exactly is rounded when the transaction     *)
(* commits (to_numeric); Representable are the values the column holds.    *)
(***************************************************************************)
EXTENDS Integers, Sequences, FiniteSets, TLC

(***************************************************************************)
(* Bounds of the model and constants of the program.                       *)
(***************************************************************************)
MaxTime == 31
MaxCycles == 3
MaxSchedCycles == 2
MaxDue == 2
MaxBatchLen == 2
MaxBatchCalls == 2
MaxConfidence == 100
MaxRetries == 2
DefaultRetries == 2
WindowMinutes == 30
HIGH_CONFIDENCE_THRESHOLD == 90
LOW_CONFIDENCE_THRESHOLD == 50
max_wait == 240
PollSeconds == 10

Tickers == {"BTC", "ETH"}
Timeframes == {"1h"}
Representable == {4, 8, 12}
ObsPrices == {4, 8, 9, 12}
Confidences == {0, 80, 91}
TimeSteps == {30, 31}
ManualCallers == {"m1", "m2"}
Runners == {"worker"} \cup ManualCallers

(* str(e) of the exceptions a cycle ends with: the ticker list cannot be   *)
(* read, the store cannot be reached; and the text run_manual gives when a *)
(* worker is alive.  NoError stands for no 'error' key.                    *)
NoError == ""
TickersError == "tickers file not found"
StoreError == "database error"
BusyError == "already running"
CycleErrors == {TickersError, StoreError}

(* direction, entry, take-profit and stop-loss of the observations fetched *)
Plain == [signal_type |-> "LONG", entry_price |-> 8, take_profit |-> 12, stop_loss |-> 4]

Contracts ==
  { Plain,
    [signal_type |-> "LONG",  entry_price |-> 8,  take_profit |-> 4,  stop_loss |-> 12],
    [signal_type |-> "LONG",  entry_price |-> 12, take_profit |-> 0,  stop_loss |-> 0],
    [signal_type |-> "SHORT", entry_price |-> 8,  take_profit |-> 4,  stop_loss |-> 12] }

Obs(t, f, c, cf, p, cat) ==
  [ticker |-> t, timeframe |-> f, signal_type |-> c.signal_type,
   entry_price |-> c.entry_price, take_profit |-> c.take_profit,
   stop_loss |-> c.stop_loss, confidence |-> cf, current_price |-> p,
   signal_category |-> cat]

(* for BTC every contract at every price the column holds, and the plain   *)
(* contract with another or no confidence and at a price the column        *)
(* rounds; for ETH the plain contract                                      *)
Observations ==
  {Obs("BTC", f, c, 80, p, "main") :
     f \in Timeframes, c \in Contracts, p \in Representable}
  \cup
  {Obs("BTC", f, Plain, cf, 8, "main") : f \in Timeframes, cf \in Confidences}
  \cup
  {Obs("BTC", f, Plain, 80, p, "main") : f \in Timeframes, p \in ObsPrices}
  \cup
  {Obs("ETH", f, Plain, 80, 8, "main") : f \in Timeframes}

VARIABLES
  rows,               \* the signals table: a sequence of rows in id order
  now,                \* datetime.utcnow(), minutes
  pc,                 \* position of each thread that can run a cycle
  processed_signals,  \* per runner: the batch its cycle fetched
  save_results,       \* per runner: the counts save_signals_batch returned
  validation_results, \* per runner: the counts validate_active_signals returned
  api_errors,         \* per runner: results['api_errors'] of its cycle
  raw_signals_data,   \* per runner: what get_signals_batch gave its cycle
  notifications_data, \* per runner: the frames its cycle handed to
                      \* NotificationService.send_batch_notifications
  job_thread,         \* self.job_thread: "none", "alive" or "dead"
  is_running, shutdown_requested,
  total_runs, successful_runs, failed_runs, last_run_result,
  loop_pc, due_left,  \* the scheduling loop of start()
  manual_result,      \* per manual caller: what its last run_manual returned
  manual_error,       \* per manual caller: the 'error' of that result
  cycle_error,        \* per runner: str(e) of the exception its cycle raised
  last_run_error,     \* last_run_result['error']
  stop_pc, waited,    \* stop(): its position and its local waited
  force_pc,           \* force_stop(): its position
  process,            \* the process: "running", or "exited" after os._exit
  status_pc, status_dict,  \* get_status(): its position and its dict status
  parsed_signals,     \* per caller of analyze_confidence_warnings: its list
                      \* signals, the argument of the call
  fetch_pc,           \* get_multi_signal(): its position
  fetch_ticker, fetch_retries,  \* its arguments ticker and retries
  fetch_attempt,      \* its loop variable attempt
  fetch_result,       \* what it returned: "data" or "none"
  fetch_log,          \* history: what the upstream gave to each request of
                      \* the call, in order
  hist                \* history: the cycles entered so far, what the last call
                      \* of _run_signal_processing_job did, and the direct
                      \* calls of save_signals_batch made so far

vars == <<rows, now, pc, processed_signals, save_results, validation_results,
          api_errors, raw_signals_data, notifications_data, job_thread, is_running,
          shutdown_requested, total_runs, successful_runs, failed_runs,
          last_run_result, last_run_error, cycle_error, loop_pc, due_left,
          manual_result, manual_error, stop_pc, waited,
          force_pc, process, status_pc, status_dict, fetch_pc, fetch_ticker,
          fetch_retries, fetch_attempt, fetch_result, fetch_log, parsed_signals,
          hist>>

cycle_vars == <<processed_signals, save_results, validation_results,
                api_errors, raw_signals_data, notifications_data, cycle_error>>
ledger_vars == <<total_runs, successful_runs, failed_runs, last_run_result,
                 last_run_error>>
manual_vars == <<manual_result, manual_error>>
sched_vars == <<job_thread, is_running, shutdown_requested, loop_pc, due_left>>
ctl_vars == <<stop_pc, waited, force_pc, process, status_pc, status_dict>>
fetch_vars == <<fetch_pc, fetch_ticker, fetch_retries, fetch_attempt, fetch_result,
                fetch_log>>

(***************************************************************************)
(* Numeric(18, 8) column: nearest representable value, ties upward.        *)
(***************************************************************************)
Dist(a, b) == IF a >= b THEN a - b ELSE b - a

to_numeric(v) ==
  IF v = 0 THEN 0
  ELSE CHOOSE r \in Representable :
         \A q \in Representable :
           Dist(r, v) < Dist(q, v) \/ (Dist(r, v) = Dist(q, v) /\ r >= q)

(***************************************************************************)
(* Execution state machine (SignalValidator).                              *)
(***************************************************************************)
ActiveStatuses == {"new", "entry_hit", "active"}
Statuses == ActiveStatuses \cup {"tp_hit", "sl_hit"}

(* variant: the fill is a strict crossing, equality does not fill *)
check_entry_execution_strict(signal_type, current_price, entry_price) ==
  IF signal_type = "LONG" THEN current_price < entry_price
  ELSE IF signal_type = "SHORT" THEN current_price > entry_price
  ELSE FALSE

check_entry_execution(signal_type, current_price, entry_price) ==
  IF signal_type = "LONG" THEN current_price <= entry_price
  ELSE IF signal_type = "SHORT" THEN current_price >= entry_price
  ELSE FALSE

check_take_profit_execution(signal_type, current_price, take_profit) ==
  IF signal_type = "LONG" THEN current_price >= take_profit
  ELSE IF signal_type = "SHORT" THEN current_price <= take_profit
  ELSE FALSE

(* variant: the stop is a strict crossing, equality does not stop *)
check_stop_loss_execution_strict(signal_type, current_price, stop_loss) ==
  IF signal_type = "LONG" THEN current_price < stop_loss
  ELSE IF signal_type = "SHORT" THEN current_price > stop_loss
  ELSE FALSE

check_stop_loss_execution(signal_type, current_price, stop_loss) ==
  IF signal_type = "LONG" THEN current_price <= stop_loss
  ELSE IF signal_type = "SHORT" THEN current_price >= stop_loss
  ELSE FALSE

(* variant: the take-profit is looked at before the stop *)
check_signal_execution_take_first(signal, current_price) ==
  LET stop_hit == signal.stop_loss # 0 /\
                  check_stop_loss_execution(signal.signal_type, current_price,
                                            signal.stop_loss)
      take_hit == signal.take_profit # 0 /\
                  check_take_profit_execution(signal.signal_type, current_price,
                                              signal.take_profit)
  IN  IF signal.status = "new"
      THEN IF check_entry_execution(signal.signal_type, current_price,
                                    signal.entry_price)
           THEN "entry_hit" ELSE "new"
      ELSE IF signal.status = "entry_hit" \/ signal.status = "active"
      THEN IF take_hit THEN "tp_hit"
           ELSE IF stop_hit THEN "sl_hit"
           ELSE "active"
      ELSE signal.status

(* variant: with no exit hit the entry is looked at again, whatever the     *)
(* status                                                                  *)
check_signal_execution_refill(signal, current_price) ==
  LET stop_hit == signal.stop_loss # 0 /\
                  check_stop_loss_execution(signal.signal_type, current_price,
                                            signal.stop_loss)
      take_hit == signal.take_profit # 0 /\
                  check_take_profit_execution(signal.signal_type, current_price,
                                              signal.take_profit)
      filled == check_entry_execution(signal.signal_type, current_price,
                                      signal.entry_price)
  IN  IF signal.status = "new"
      THEN IF filled THEN "entry_hit" ELSE "new"
      ELSE IF signal.status = "entry_hit" \/ signal.status = "active"
      THEN IF stop_hit THEN "sl_hit"
           ELSE IF take_hit THEN "tp_hit"
           ELSE IF filled THEN "active" ELSE "new"
      ELSE signal.status

(* variant: a row that fills is looked at for its exits in the same pass *)
check_signal_execution_through(signal, current_price) ==
  LET stop_hit == signal.stop_loss # 0 /\
                  check_stop_loss_execution(signal.signal_type, current_price,
                                            signal.stop_loss)
      take_hit == signal.take_profit # 0 /\
                  check_take_profit_execution(signal.signal_type, current_price,
                                              signal.take_profit)
  IN  IF signal.status = "new"
      THEN IF check_entry_execution(signal.signal_type, current_price,
                                    signal.entry_price)
           THEN IF stop_hit THEN "sl_hit"
                ELSE IF take_hit THEN "tp_hit"
                ELSE "entry_hit"
           ELSE "new"
      ELSE IF signal.status = "entry_hit" \/ signal.status = "active"
      THEN IF stop_hit THEN "sl_hit"
           ELSE IF take_hit THEN "tp_hit"
           ELSE "active"
      ELSE signal.status

check_signal_execution(signal, current_price) ==
  LET stop_hit == signal.stop_loss # 0 /\
                  check_stop_loss_execution(signal.signal_type, current_price,
                                            signal.stop_loss)
      take_hit == signal.take_profit # 0 /\
                  check_take_profit_execution(signal.signal_type, current_price,
                                              signal.take_profit)
  IN  IF signal.status = "new"
      THEN IF check_entry_execution(signal.signal_type, current_price,
                                    signal.entry_price)
           THEN "entry_hit" ELSE "new"
      ELSE IF signal.status = "entry_hit" \/ signal.status = "active"
      THEN IF stop_hit THEN "sl_hit"
           ELSE IF take_hit THEN "tp_hit"
           ELSE "active"
      ELSE signal.status

(* variant: the re-validation does not see the row inserted last *)
get_active_signals_before_insert(rs) ==
  {i \in DOMAIN rs : rs[i].status \in ActiveStatuses /\ i < Len(rs)}

(* SignalCRUD.get_active_signals: the rows the re-validation looks at *)
get_active_signals(rs) == {i \in DOMAIN rs : rs[i].status \in ActiveStatuses}

(* variant: the status is updated without the price *)
update_signal_status_keeps_price(signal, status, current_price) ==
  [signal EXCEPT !.status = status]

(* SignalCRUD.update_signal_status, as the commit leaves the row *)
update_signal_status(signal, status, current_price) ==
  [signal EXCEPT !.status = status,
                 !.current_price = IF current_price # 0
                                   THEN to_numeric(current_price)
                                   ELSE signal.current_price]

(* variant: the row's own price is taken before the fetched one *)
validation_price_own_first(signal, prices) ==
  IF signal.current_price # 0 THEN signal.current_price
  ELSE prices[signal.ticker]

(* the price one row is evaluated with; 0 when there is none *)
validation_price(signal, prices) ==
  IF prices[signal.ticker] # 0 THEN prices[signal.ticker]
  ELSE signal.current_price

(* variant: the price evaluated with is written also when the status stays *)
validate_signal_refreshes_price(signal, prices) ==
  LET current_price == validation_price(signal, prices)
      new_status == check_signal_execution(signal, current_price)
  IN  IF current_price = 0 THEN signal
      ELSE update_signal_status(signal, new_status, current_price)

(* one iteration of the loop of validate_active_signals *)
validate_signal(signal, prices) ==
  LET current_price == validation_price(signal, prices)
      new_status == check_signal_execution(signal, current_price)
  IN  IF current_price = 0 THEN signal
      ELSE IF new_status # signal.status
      THEN update_signal_status(signal, new_status, current_price)
      ELSE signal

(* variant: every row is re-validated, a resolved one as an open position *)
validate_active_signals_unfiltered(rs, prices) ==
  [i \in DOMAIN rs |->
     LET signal == rs[i]
         reopened == [signal EXCEPT !.status = IF @ \in {"tp_hit", "sl_hit"}
                                               THEN "active" ELSE @]
         current_price == validation_price(signal, prices)
         new_status == check_signal_execution(reopened, current_price)
     IN  IF current_price = 0 THEN signal
         ELSE IF new_status # signal.status
         THEN update_signal_status(signal, new_status, current_price)
         ELSE signal]

(* the store after validate_active_signals has committed *)
validate_active_signals(rs, prices) ==
  [i \in DOMAIN rs |->
     IF i \in get_active_signals(rs) THEN validate_signal(rs[i], prices)
     ELSE rs[i]]

(***************************************************************************)
(* Upsert engine (SignalProcessor).                                        *)
(***************************************************************************)
(* variant: the lookup has no created_at bound *)
find_existing_signal_any_age(rs, signal_data, t) ==
  {i \in DOMAIN rs :
     /\ rs[i].ticker = signal_data.ticker
     /\ rs[i].timeframe = signal_data.timeframe
     /\ rs[i].status \in ActiveStatuses}

(* variant: a correction is looked up among corrections only, of which    *)
(* the table has none                                                      *)
find_existing_signal_by_category(rs, signal_data, t) ==
  {i \in DOMAIN rs :
     /\ rs[i].ticker = signal_data.ticker
     /\ rs[i].timeframe = signal_data.timeframe
     /\ rs[i].created_at >= t - WindowMinutes
     /\ rs[i].status \in ActiveStatuses
     /\ signal_data.signal_category # "correction"}

(* variant: the lookup matches rows that are still new only *)
find_existing_signal_new_only(rs, signal_data, t) ==
  {i \in DOMAIN rs :
     /\ rs[i].ticker = signal_data.ticker
     /\ rs[i].timeframe = signal_data.timeframe
     /\ rs[i].created_at >= t - WindowMinutes
     /\ rs[i].status = "new"}

(* the rows the lookup of _find_existing_signal matches; .first() has no   *)
(* ORDER BY, so any of them may be the one returned                        *)
find_existing_signal(rs, signal_data, t) ==
  {i \in DOMAIN rs :
     /\ rs[i].ticker = signal_data.ticker
     /\ rs[i].timeframe = signal_data.timeframe
     /\ rs[i].created_at >= t - WindowMinutes
     /\ rs[i].status \in ActiveStatuses}

(* None of an optional number where it is told apart from 0.0, and the     *)
(* truth value Python gives an optional number                             *)
None == -1
truthy(v) == v # 0 /\ v # None

(* variant: the merge also takes the observation's entry *)
update_existing_signal_overwrites_entry(existing, signal_data) ==
  LET price_changes == signal_data.current_price # 0 /\
                       signal_data.current_price # existing.current_price
      conf_changes == truthy(signal_data.confidence) /\
                      signal_data.confidence # existing.confidence
  IN  [signal |-> [existing EXCEPT
                     !.entry_price = signal_data.entry_price,
                     !.current_price = IF price_changes
                                       THEN signal_data.current_price ELSE @,
                     !.confidence = IF conf_changes
                                    THEN signal_data.confidence ELSE @],
       updated |-> price_changes \/ conf_changes]

(* variant: every merge reports an update *)
update_existing_signal_always(existing, signal_data) ==
  LET price_changes == signal_data.current_price # 0 /\
                       signal_data.current_price # existing.current_price
      conf_changes == truthy(signal_data.confidence) /\
                      signal_data.confidence # existing.confidence
  IN  [signal |-> [existing EXCEPT
                     !.current_price = IF price_changes
                                       THEN signal_data.current_price ELSE @,
                     !.confidence = IF conf_changes
                                    THEN signal_data.confidence ELSE @],
       updated |-> TRUE]

(* variant: the merge also takes the observation's direction and levels *)
update_existing_signal_takes_contract(existing, signal_data) ==
  LET price_changes == signal_data.current_price # 0 /\
                       signal_data.current_price # existing.current_price
      conf_changes == truthy(signal_data.confidence) /\
                      signal_data.confidence # existing.confidence
  IN  [signal |-> [existing EXCEPT
                     !.signal_type = signal_data.signal_type,
                     !.take_profit = signal_data.take_profit,
                     !.stop_loss = signal_data.stop_loss,
                     !.current_price = IF price_changes
                                       THEN signal_data.current_price ELSE @,
                     !.confidence = IF conf_changes
                                    THEN signal_data.confidence ELSE @],
       updated |-> price_changes \/ conf_changes]

(* _update_existing_signal: the row afterwards and the value returned *)
update_existing_signal(existing, signal_data) ==
  LET price_changes == signal_data.current_price # 0 /\
                       signal_data.current_price # existing.current_price
      conf_changes == truthy(signal_data.confidence) /\
                      signal_data.confidence # existing.confidence
  IN  [signal |-> [existing EXCEPT
                     !.current_price = IF price_changes
                                       THEN signal_data.current_price ELSE @,
                     !.confidence = IF conf_changes
                                    THEN signal_data.confidence ELSE @],
       updated |-> price_changes \/ conf_changes]

(* _create_new_signal and SignalCRUD.create_signal: the row inserted *)
create_new_signal(rs, signal_data, t) ==
  [id |-> Len(rs) + 1,
   ticker |-> signal_data.ticker,
   timeframe |-> signal_data.timeframe,
   signal_type |-> signal_data.signal_type,
   entry_price |-> signal_data.entry_price,
   take_profit |-> signal_data.take_profit,
   stop_loss |-> signal_data.stop_loss,
   confidence |-> signal_data.confidence,
   current_price |-> signal_data.current_price,
   status |-> "new",
   created_at |-> t]

NoResults == [total_signals |-> 0, saved_signals |-> 0, updated_signals |-> 0,
              errors |-> 0]

(* variant: an observation is counted in the total only once it has been   *)
(* created or merged                                                       *)
RECURSIVE save_signals_from_counts_late(_, _, _, _, _)
save_signals_from_counts_late(rs, signals, results, t, usable) ==
  IF signals = <<>> THEN {[rows |-> rs, results |-> results, usable |-> usable]}
  ELSE
    LET signal_data == Head(signals)
        counted == [results EXCEPT !.total_signals = @ + 1]
        existing == find_existing_signal(rs, signal_data, t)
    IN  IF ~usable
        THEN save_signals_from_counts_late(rs, Tail(signals),
                               [results EXCEPT !.errors = @ + 1], t, FALSE)
        ELSE IF existing # {}
        THEN UNION { LET u == update_existing_signal(rs[i], signal_data)
                     IN  save_signals_from_counts_late(
                           [rs EXCEPT ![i] = u.signal], Tail(signals),
                           IF u.updated
                           THEN [counted EXCEPT !.updated_signals = @ + 1]
                           ELSE counted, t, TRUE)
                     : i \in existing }
        ELSE IF signal_data.entry_price = 0
        THEN save_signals_from_counts_late(rs, Tail(signals), results, t, FALSE)
        ELSE save_signals_from_counts_late(
               Append(rs, create_new_signal(rs, signal_data, t)),
               Tail(signals),
               [counted EXCEPT !.saved_signals = @ + 1], t, TRUE)

(* the loop of save_signals_batch over the observations left: every        *)
(* outcome the session can reach, as the rows it holds, the counts and     *)
(* whether its transaction is still usable.  An observation without an     *)
(* entry matches nothing and its insert breaks the NOT NULL column at the  *)
(* flush: _create_new_signal catches that and returns None, nothing is     *)
(* counted, and the session's transaction is rolled back and unusable;     *)
(* from then on every lookup raises and is counted in errors               *)
RECURSIVE save_signals_from(_, _, _, _, _)
save_signals_from(rs, signals, results, t, usable) ==
  IF signals = <<>> THEN {[rows |-> rs, results |-> results, usable |-> usable]}
  ELSE
    LET signal_data == Head(signals)
        counted == [results EXCEPT !.total_signals = @ + 1]
        existing == find_existing_signal(rs, signal_data, t)
    IN  IF ~usable
        THEN save_signals_from(rs, Tail(signals),
                               [counted EXCEPT !.errors = @ + 1], t, FALSE)
        ELSE IF existing # {}
        THEN UNION { LET u == update_existing_signal(rs[i], signal_data)
                     IN  save_signals_from(
                           [rs EXCEPT ![i] = u.signal], Tail(signals),
                           IF u.updated
                           THEN [counted EXCEPT !.updated_signals = @ + 1]
                           ELSE counted, t, TRUE)
                     : i \in existing }
        ELSE IF signal_data.entry_price = 0
        THEN save_signals_from(rs, Tail(signals), counted, t, FALSE)
        ELSE save_signals_from(
               Append(rs, create_new_signal(rs, signal_data, t)),
               Tail(signals),
               [counted EXCEPT !.saved_signals = @ + 1], t, TRUE)

(* session.commit(): the Numeric columns round what the session wrote *)
commit_row(signal) ==
  [signal EXCEPT !.entry_price = to_numeric(@),
                 !.take_profit = to_numeric(@),
                 !.stop_loss = to_numeric(@),
                 !.current_price = to_numeric(@)]

(* save_signals_batch: the outcomes of one batch.  With the transaction    *)
(* usable the commit stores the rows and the counts are returned; else the *)
(* commit raises, session_scope rolls back and DatabaseError is raised     *)
save_signals_batch(rs, signals, t) ==
  { IF o.usable
    THEN [rows |-> [i \in DOMAIN o.rows |-> commit_row(o.rows[i])],
          results |-> o.results, raised |-> FALSE]
    ELSE [rows |-> rs, results |-> NoResults, raised |-> TRUE]
    : o \in save_signals_from(rs, signals, NoResults, t, TRUE) }

(* variant: what the session had flushed when the store failed is kept *)
save_signals_batch_interrupted_keeps_flushed(rs, signals, t) ==
  { [rows |-> o.rows, results |-> NoResults, raised |-> TRUE]
    : o \in UNION { save_signals_from(rs, SubSeq(signals, 1, k - 1), NoResults, t, TRUE)
                    : k \in 1..Len(signals) } }

(* save_signals_batch when the store fails at one of the observations,     *)
(* after the session has created and merged rows for those before it: the  *)
(* failure leaves the with block, session_scope rolls the transaction back  *)
(* and DatabaseError is raised                                              *)
save_signals_batch_interrupted(rs, signals, t) ==
  { [rows |-> rs, results |-> NoResults, raised |-> TRUE]
    : o \in UNION { save_signals_from(rs, SubSeq(signals, 1, k - 1), NoResults, t, TRUE)
                    : k \in 1..Len(signals) } }

(* manager.py: current_prices, the first observation's price per ticker *)
gather_current_prices(signals) ==
  [tk \in Tickers |->
     LET own == {i \in DOMAIN signals : signals[i].ticker = tk}
     IN  IF own = {} THEN 0
         ELSE signals[CHOOSE i \in own : \A j \in own : i <= j].current_price]

(* the counts validate_active_signals returns for the store it found *)
NoValidation == [entry_hits |-> 0, take_profit_hits |-> 0, stop_loss_hits |-> 0,
                 errors |-> 0]

validation_counts(rs, prices) ==
  LET after == validate_active_signals(rs, prices)
      moved(st) == Cardinality({i \in DOMAIN rs :
                      rs[i].status # st /\ after[i].status = st})
  IN  [entry_hits |-> moved("entry_hit"), take_profit_hits |-> moved("tp_hit"),
       stop_loss_hits |-> moved("sl_hit"), errors |-> 0]

(***************************************************************************)
(* The batches a cycle can fetch: what parse and annotate hand to the      *)
(* upsert.  One observation; or a main and a correction observation of one *)
(* timeframe item, which share the item's price; or one observation for    *)
(* each of two tickers.                                                    *)
(***************************************************************************)
CorrectionOf(m) ==
  [m EXCEPT !.signal_category = "correction", !.signal_type = "SHORT",
            !.take_profit = 4, !.stop_loss = 12, !.confidence = 91]

PlainAt(t) ==
  {o \in Observations :
     /\ o.ticker = t /\ o.confidence = 80 /\ o.current_price \in Representable
     /\ o.signal_type = Plain.signal_type /\ o.entry_price = Plain.entry_price
     /\ o.take_profit = Plain.take_profit /\ o.stop_loss = Plain.stop_loss}

Batches ==
  {<<>>}
  \cup {<<o>> : o \in Observations}
  \cup {<<m, CorrectionOf(m)>> : m \in {b \in PlainAt("BTC") : b.current_price = 8}}
  \cup {<<b, e>> \in PlainAt("BTC") \X PlainAt("ETH") :
          b.current_price = 8 /\ e.current_price = 8}

(* the batches of the runs about the price a row is evaluated with: one    *)
(* observation, of either ticker, at a price on either side of the entry;  *)
(* and what a caller of save_signals_batch itself can give, an observation *)
(* that has no current_price (the parser puts the entry there)             *)
PricedBatches ==
  {<<>>} \cup {<<Obs(t, "1h", Plain, 80, p, "main")>> : t \in Tickers, p \in {4, 12}}

UnpricedBatches == {<<Obs(t, "1h", Plain, 80, 0, "main")>> : t \in Tickers}

(* the narrower choice of the runs that interleave all threads *)
SchedBatches == {<<o>> : o \in {b \in PlainAt("BTC") : b.current_price = 8}}

(***************************************************************************)
(* The batches a caller can give to save_signals_batch itself: besides the *)
(* observations the parser lets through, an observation with direction     *)
(* HOLD and one without entry_price.                                       *)
(***************************************************************************)
BatchTimeframes == {"15m", "1h", "4h"}
BatchKinds == {"plain", "hold", "no_entry"}

Direct(t, f, kind, p) ==
  Obs(t, f, [Plain EXCEPT !.signal_type = IF kind = "hold" THEN "HOLD" ELSE @,
                          !.entry_price = IF kind = "no_entry" THEN 0 ELSE @],
      80, p, "main")

DirectObservations ==
  {Direct(t, "1h", kind, 8) : t \in Tickers, kind \in BatchKinds}
  \cup {Direct("BTC", "1h", "plain", 12)}

RECURSIVE SeqsUpTo(_, _)
SeqsUpTo(S, n) ==
  IF n = 0 THEN {<<>>}
  ELSE LET shorter == SeqsUpTo(S, n - 1)
       IN  shorter \cup {Append(q, x) : q \in {b \in shorter : Len(b) = n - 1}, x \in S}

(* five observations with five keys, one of them HOLD and one without entry *)
FiveKeys == <<[ticker |-> "BTC", timeframe |-> "15m"],
              [ticker |-> "BTC", timeframe |-> "1h"],
              [ticker |-> "BTC", timeframe |-> "4h"],
              [ticker |-> "ETH", timeframe |-> "15m"],
              [ticker |-> "ETH", timeframe |-> "1h"]>>

FiveBatches ==
  { [k \in 1..5 |->
       Direct(FiveKeys[k].ticker, FiveKeys[k].timeframe,
              IF k = h THEN "hold" ELSE IF k = e THEN "no_entry" ELSE "plain", 8)]
    : <<h, e>> \in {x \in (1..5) \X (1..5) : x[1] # x[2]} }

DirectBatches == SeqsUpTo(DirectObservations, MaxBatchLen) \cup FiveBatches

(***************************************************************************)
(* What the signal API gives for a ticker (get_signals_batch): nothing     *)
(* when the request failed; else the decoded body, a text or a list of     *)
(* timeframe items of the plain format.  In an item 0 and "" stand for a   *)
(* key that is absent.                                                     *)
(***************************************************************************)
NoResponse == [kind |-> "none", items |-> <<>>]
TextResponse == [kind |-> "text", items |-> <<>>]
ListResponse(items) == [kind |-> "list", items |-> items]
NoRawData == [tk \in Tickers |-> NoResponse]

RawTypes == {"LONG", "buy", "SELL", "HOLD", "flat", ""}

RawItem(type, entry, cf) ==
  [timeframe |-> "1h", type |-> type, entry |-> entry, tp |-> 12, sl |-> 4,
   confidence |-> cf, current_price |-> 8]

RawItems ==
  {RawItem(type, 8, 80) : type \in RawTypes}
  \cup {RawItem("LONG", 0, 80), RawItem("buy", 8, 40), RawItem("SELL", 8, 96)}

RawResponses ==
  {NoResponse, TextResponse, ListResponse(<<>>)}
  \cup {ListResponse(<<item>>) : item \in RawItems}
  \cup {ListResponse(<<RawItem("LONG", 0, 80), RawItem("SELL", 8, 80)>>)}

(* every response for BTC; for ETH a failed request, a text or one item *)
RawSignalsData ==
  {[tk \in Tickers |-> IF tk = "BTC" THEN b ELSE e] :
     b \in RawResponses,
     e \in {NoResponse, TextResponse, ListResponse(<<RawItem("LONG", 8, 80)>>)}}

(* items of the format with main_signal and correction_signal: the main    *)
(* signal is the plain contract with confidence 80, the correction goes    *)
(* the other way with a confidence of its own or none; an item can have    *)
(* both or the correction alone                                            *)
RawSignal(type, tp, sl, cf) ==
  [type |-> type, entry |-> 8, tp |-> tp, sl |-> sl, confidence |-> cf]

CorrectionConfidences == {0, 80, 91}

NestedItems ==
  {[timeframe |-> "1h", main_signal |-> RawSignal("LONG", 12, 4, 80),
    correction_signal |-> RawSignal("SHORT", 4, 12, cf), current_price |-> p] :
     cf \in CorrectionConfidences, p \in Representable}
  \cup
  {[timeframe |-> "1h", correction_signal |-> RawSignal("SHORT", 4, 12, cf),
    current_price |-> p] : cf \in CorrectionConfidences, p \in Representable}
  \cup
  {[timeframe |-> "1h", main_signal |-> RawSignal("LONG", 12, 4, 80),
    current_price |-> p] : p \in Representable}

(* the responses of the runs about corrections: for BTC one such item, or  *)
(* nothing; for ETH nothing                                                *)
NestedSignalsData ==
  {[tk \in Tickers |-> IF tk = "BTC" THEN b ELSE NoResponse] :
     b \in {NoResponse} \cup {ListResponse(<<item>>) : item \in NestedItems}}

(* parse_tickers: the order of the ticker list *)
TickerOrder == <<"BTC", "ETH">>

(***************************************************************************)
(* SignalDataParser.                                                       *)
(***************************************************************************)
(* str(signal_type).upper().strip() on the types the API gives *)
upper_strip(signal_type) ==
  IF signal_type = "buy" THEN "BUY"
  ELSE IF signal_type = "flat" THEN "FLAT"
  ELSE signal_type

normalize_signal_type(signal_type) ==
  IF signal_type = "" THEN "HOLD"
  ELSE LET upper == upper_strip(signal_type)
       IN  IF upper \in {"LONG", "BUY", "1", "UP", "BULL", "BULLISH"} THEN "LONG"
           ELSE IF upper \in {"SHORT", "SELL", "-1", "DOWN", "BEAR", "BEARISH"}
                THEN "SHORT"
           ELSE "HOLD"

(* _parse_single_signal: no observation (None) or one *)
parse_single_signal(data, ticker, timeframe) ==
  LET signal_type == normalize_signal_type(data.type)
  IN  IF data.entry = 0 THEN <<>>
      ELSE IF signal_type \notin {"LONG", "SHORT", "HOLD"} THEN <<>>
      ELSE << [ticker |-> ticker, timeframe |-> timeframe,
               signal_type |-> signal_type, entry_price |-> data.entry,
               take_profit |-> data.tp, stop_loss |-> data.sl,
               confidence |-> IF data.confidence # 0 THEN data.confidence ELSE None,
               current_price |-> IF data.current_price # 0
                                 THEN data.current_price ELSE data.entry,
               signal_category |-> "main"] >>

(* _parse_timeframe_item: the main_signal and the correction_signal of the *)
(* item, each with the item's current_price and tagged with its category;  *)
(* when that gave nothing, the item itself as one main signal              *)
parse_tagged(item, key, category, ticker, timeframe) ==
  IF key \notin DOMAIN item THEN <<>>
  ELSE LET parsed == parse_single_signal(
                       item[key] @@ ("current_price" :> item.current_price),
                       ticker, timeframe)
       IN  [k \in DOMAIN parsed |-> [parsed[k] EXCEPT !.signal_category = category]]

parse_timeframe_item(item, ticker, timeframe) ==
  LET signals == parse_tagged(item, "main_signal", "main", ticker, timeframe)
                 \o parse_tagged(item, "correction_signal", "correction", ticker, timeframe)
  IN  IF signals # <<>> THEN signals
      ELSE IF "entry" \in DOMAIN item THEN parse_single_signal(item, ticker, timeframe)
      ELSE <<>>

RECURSIVE parse_items(_, _)
parse_items(items, ticker) ==
  IF items = <<>> THEN <<>>
  ELSE parse_timeframe_item(Head(items), ticker, Head(items).timeframe)
       \o parse_items(Tail(items), ticker)

(* parse_signal_response: ValidationError, or the observations *)
parse_signal_response(data, ticker) ==
  IF data.kind = "text" \/ data.items = <<>>
  THEN [raised |-> TRUE, signals |-> <<>>]
  ELSE [raised |-> FALSE, signals |-> parse_items(data.items, ticker)]

(***************************************************************************)
(* ConfidenceAnalyzer.                                                     *)
(***************************************************************************)
check_trend_conflict(signal) ==
  IF signal.confidence > 95 THEN <<"potential_trend_conflict">> ELSE <<>>

(* variant: a confidence equal to the high threshold is not high *)
confidence_warnings_above(signal) ==
  IF signal.confidence = None THEN <<>>
  ELSE (IF signal.confidence > HIGH_CONFIDENCE_THRESHOLD THEN <<"high_confidence">>
        ELSE IF signal.confidence < LOW_CONFIDENCE_THRESHOLD THEN <<"low_confidence">>
        ELSE <<>>)
       \o check_trend_conflict(signal)

confidence_warnings(signal) ==
  IF signal.confidence = None THEN <<>>
  ELSE (IF signal.confidence >= HIGH_CONFIDENCE_THRESHOLD THEN <<"high_confidence">>
        ELSE IF signal.confidence < LOW_CONFIDENCE_THRESHOLD THEN <<"low_confidence">>
        ELSE <<>>)
       \o check_trend_conflict(signal)

(* variant: only the observations that got a warning are returned *)
analyze_confidence_warnings_flagged(signals) ==
  SelectSeq([k \in DOMAIN signals |->
               signals[k] @@ ("warnings" :> confidence_warnings(signals[k]))],
            LAMBDA o : o.warnings # <<>>)

analyze_confidence_warnings(signals) ==
  [k \in DOMAIN signals |->
     signals[k] @@ ("warnings" :> confidence_warnings(signals[k]))]

(***************************************************************************)
(* Steps 2 and 3 of the cycle: the loop over raw_signals_data.  The        *)
(* result is the observations of processed_signals in the order the save   *)
(* takes them, and results['api_errors'].                                  *)
(***************************************************************************)
(* variant: the first ticker that fails ends the loop *)
RECURSIVE process_raw_signals_stops(_, _, _)
process_raw_signals_stops(raw, tickers, acc) ==
  IF tickers = <<>> THEN acc
  ELSE LET ticker == Head(tickers)
           api_data == raw[ticker]
           parsed == parse_signal_response(api_data, ticker)
       IN  IF api_data.kind = "none" \/ parsed.raised
           THEN [acc EXCEPT !.api_errors = @ + 1]
           ELSE process_raw_signals_stops(raw, Tail(tickers),
                  [acc EXCEPT !.signals =
                     @ \o analyze_confidence_warnings(parsed.signals)])

RECURSIVE process_raw_signals(_, _, _)
process_raw_signals(raw, tickers, acc) ==
  IF tickers = <<>> THEN acc
  ELSE LET ticker == Head(tickers)
           api_data == raw[ticker]
           parsed == parse_signal_response(api_data, ticker)
       IN  IF api_data.kind = "none"
           THEN process_raw_signals(raw, Tail(tickers),
                                    [acc EXCEPT !.api_errors = @ + 1])
           ELSE IF parsed.raised
           THEN process_raw_signals(raw, Tail(tickers),
                                    [acc EXCEPT !.api_errors = @ + 1])
           ELSE process_raw_signals(raw, Tail(tickers),
                  [acc EXCEPT !.signals =
                     @ \o analyze_confidence_warnings(parsed.signals)])

(***************************************************************************)
(* The processing cycle, SignalManager.fetch_and_process_all_signals, run  *)
(* by runner r: "fetch" -> "validate" -> "notify" -> "returned", or        *)
(* "raised" when the cycle ends with an exception.                         *)
(***************************************************************************)
InCycle(r) == pc[r] \in {"fetch", "validate", "notify"}
CyclesInProgress == {r \in Runners : InCycle(r)}

(* step 4 and what follows it: the observations parse and annotate hand   *)
(* over are saved; DatabaseError from the save ends the cycle              *)
CycleUpsert(r, signals) ==
  IF signals = <<>>
  THEN /\ processed_signals' = [processed_signals EXCEPT ![r] = signals]
       /\ pc' = [pc EXCEPT ![r] = "validate"]
       /\ UNCHANGED <<rows, save_results, cycle_error>>
  ELSE \E o \in save_signals_batch(rows, signals, now) :
         IF o.raised
         THEN /\ pc' = [pc EXCEPT ![r] = "raised"]
              /\ cycle_error' = [cycle_error EXCEPT ![r] = StoreError]
              /\ UNCHANGED <<rows, save_results, processed_signals>>
         ELSE /\ rows' = o.rows
              /\ save_results' = [save_results EXCEPT ![r] = o.results]
              /\ processed_signals' = [processed_signals EXCEPT ![r] = signals]
              /\ pc' = [pc EXCEPT ![r] = "validate"]
              /\ cycle_error' = cycle_error

(* steps 1-4: fetch, parse, annotate, save_signals_batch *)
CycleSave(r, batches) ==
  /\ pc[r] = "fetch"
  /\ \E signals \in batches : CycleUpsert(r, signals)
  /\ UNCHANGED <<parsed_signals, fetch_vars, ctl_vars, now, validation_results, api_errors, raw_signals_data,
                 notifications_data, ledger_vars, sched_vars, manual_vars, hist>>

(* steps 1-4 with the store failing during save_signals_batch: the cycle   *)
(* ends with DatabaseError, its local processed_signals holding the batch   *)
CycleSaveInterrupted(r, batches) ==
  /\ pc[r] = "fetch"
  /\ \E signals \in batches \ {<<>>} :
       /\ processed_signals' = [processed_signals EXCEPT ![r] = signals]
       /\ \E o \in save_signals_batch_interrupted(rows, signals, now) : rows' = o.rows
  /\ pc' = [pc EXCEPT ![r] = "raised"]
  /\ cycle_error' = [cycle_error EXCEPT ![r] = StoreError]
  /\ UNCHANGED <<parsed_signals, fetch_vars, ctl_vars, now, save_results, validation_results, api_errors,
                 raw_signals_data, notifications_data, ledger_vars, sched_vars,
                 manual_vars, hist>>

(* steps 1-4 from the responses of the API: the loop over the tickers,     *)
(* then save_signals_batch                                                 *)
CycleFetchOf(r, responses) ==
  /\ pc[r] = "fetch"
  /\ \E raw \in responses :
       LET out == process_raw_signals(raw, TickerOrder,
                                      [signals |-> <<>>, api_errors |-> 0])
       IN  /\ raw_signals_data' = [raw_signals_data EXCEPT ![r] = raw]
           /\ api_errors' = [api_errors EXCEPT ![r] = out.api_errors]
           /\ CycleUpsert(r, out.signals)
  /\ UNCHANGED <<parsed_signals, fetch_vars, ctl_vars, now, validation_results, notifications_data, ledger_vars,
                 sched_vars, manual_vars, hist>>

CycleFetch(r) == CycleFetchOf(r, RawSignalsData)

(* the cycle raises before anything is saved, with one of the messages    *)
(* errors: the ticker list cannot be read, or the store is unreachable in  *)
(* save_signals_batch and the session rolls back                           *)
CycleRaiseWith(r, errors) ==
  /\ pc[r] = "fetch"
  /\ pc' = [pc EXCEPT ![r] = "raised"]
  /\ \E e \in errors : cycle_error' = [cycle_error EXCEPT ![r] = e]
  /\ UNCHANGED <<parsed_signals, fetch_vars, ctl_vars, rows, now, processed_signals, save_results,
                 validation_results, api_errors, raw_signals_data,
                 notifications_data, ledger_vars, sched_vars, manual_vars, hist>>

(* the store is unreachable in save_signals_batch *)
CycleRaise(r) == CycleRaiseWith(r, {StoreError})

(* step 5: validate_active_signals; a store failure in it is caught there  *)
(* and counted, and the session rolls back                                 *)
CycleValidate(r) ==
  /\ pc[r] = "validate"
  /\ LET prices == gather_current_prices(processed_signals[r])
     IN  \/ /\ rows' = validate_active_signals(rows, prices)
            /\ validation_results' =
                 [validation_results EXCEPT ![r] = validation_counts(rows, prices)]
         \/ /\ rows' = rows
            /\ validation_results' =
                 [validation_results EXCEPT ![r] = [NoValidation EXCEPT !.errors = 1]]
  /\ pc' = [pc EXCEPT ![r] = "notify"]
  /\ UNCHANGED <<parsed_signals, fetch_vars, ctl_vars, now, processed_signals, save_results, api_errors,
                 raw_signals_data, notifications_data, cycle_error, ledger_vars,
                 sched_vars, manual_vars, hist>>

(* the locals of a cycle that has ended *)
Forget(r) ==
  /\ processed_signals' = [processed_signals EXCEPT ![r] = <<>>]
  /\ save_results' = [save_results EXCEPT ![r] = NoResults]
  /\ validation_results' = [validation_results EXCEPT ![r] = NoValidation]
  /\ api_errors' = [api_errors EXCEPT ![r] = 0]
  /\ raw_signals_data' = [raw_signals_data EXCEPT ![r] = NoRawData]
  /\ cycle_error' = [cycle_error EXCEPT ![r] = NoError]

(* step 6, the payload: when the batch was not empty and something was     *)
(* saved or updated, a frame for every observation of the batch            *)
notification_frames(signals, results) ==
  IF signals # <<>> /\ (results.saved_signals > 0 \/ results.updated_signals > 0)
  THEN {[ticker |-> signals[k].ticker, timeframe |-> signals[k].timeframe] :
          k \in DOMAIN signals}
  ELSE {}

(* step 6: notifications, then the cycle returns *)
CycleNotify(r) ==
  /\ pc[r] = "notify"
  /\ notifications_data' =
       [notifications_data EXCEPT
          ![r] = notification_frames(processed_signals[r], save_results[r])]
  /\ pc' = [pc EXCEPT ![r] = "returned"]
  /\ Forget(r)
  /\ UNCHANGED <<parsed_signals, fetch_vars, ctl_vars, rows, now, ledger_vars, sched_vars, manual_vars, hist>>

(***************************************************************************)
(* SignalScheduler.                                                        *)
(***************************************************************************)
(* variant: a worker is started whether or not one is alive *)
run_signal_processing_job_unguarded ==
  /\ job_thread' = "alive"
  /\ pc' = [pc EXCEPT !["worker"] = "started"]
  /\ hist' = [hist EXCEPT !.last_job = "started"]

(* _run_signal_processing_job, called by the thread of the loop *)
run_signal_processing_job ==
  IF job_thread = "alive"
  THEN /\ UNCHANGED <<job_thread, pc>>
       /\ hist' = [hist EXCEPT !.last_job = "skipped"]
  ELSE /\ job_thread' = "alive"
       /\ pc' = [pc EXCEPT !["worker"] = "started"]
       /\ hist' = [hist EXCEPT !.last_job = "started"]

(* start(run_immediately) up to the scheduling loop *)
StartWith(run_immediately) ==
  /\ loop_pc = "init"
  /\ ~is_running
  /\ is_running' = TRUE
  /\ shutdown_requested' = FALSE
  /\ IF run_immediately THEN run_signal_processing_job
     ELSE UNCHANGED <<job_thread, pc, hist>>
  /\ loop_pc' = "loop"
  /\ UNCHANGED <<parsed_signals, fetch_vars, ctl_vars, rows, now, cycle_vars, ledger_vars, due_left, manual_vars>>

Start == \E run_immediately \in BOOLEAN : StartWith(run_immediately)

(* one pass of the loop: schedule.run_pending() finds n jobs due *)
Tick ==
  /\ loop_pc = "loop"
  /\ is_running /\ ~shutdown_requested
  /\ hist.cycles_started < MaxSchedCycles
  /\ \E n \in 1..MaxDue : due_left' = n
  /\ loop_pc' = "pending"
  /\ UNCHANGED <<parsed_signals, fetch_vars, ctl_vars, rows, now, pc, cycle_vars, ledger_vars, job_thread, is_running,
                 shutdown_requested, manual_vars, hist>>

(* run_pending() runs the next due job *)
Dispatch ==
  /\ loop_pc = "pending"
  /\ due_left > 0
  /\ run_signal_processing_job
  /\ due_left' = due_left - 1
  /\ loop_pc' = IF due_left = 1 THEN "loop" ELSE "pending"
  /\ UNCHANGED <<parsed_signals, fetch_vars, ctl_vars, rows, now, cycle_vars, ledger_vars, is_running,
                 shutdown_requested, manual_vars>>

(* the loop condition fails: _cleanup, start() returns *)
LoopExit ==
  /\ loop_pc = "loop"
  /\ ~(is_running /\ ~shutdown_requested)
  /\ loop_pc' = "stopped"
  /\ UNCHANGED <<parsed_signals, fetch_vars, ctl_vars, rows, now, pc, cycle_vars, ledger_vars, job_thread, is_running,
                 shutdown_requested, due_left, manual_vars, hist>>

(* stop() as the other threads see it: the shutdown request; its wait      *)
(* (StopCall, StopWait) changes nothing they read                          *)
Stop ==
  /\ loop_pc \in {"loop", "pending"}
  /\ ~shutdown_requested
  /\ shutdown_requested' = TRUE
  /\ is_running' = FALSE
  /\ UNCHANGED <<parsed_signals, fetch_vars, ctl_vars, rows, now, pc, cycle_vars, ledger_vars, job_thread, loop_pc,
                 due_left, manual_vars, hist>>

(* _execute_signal_processing, first lines: the worker counts its run and  *)
(* enters the cycle                                                        *)
ExecuteBegin ==
  /\ pc["worker"] = "started"
  /\ total_runs' = total_runs + 1
  /\ pc' = [pc EXCEPT !["worker"] = "fetch"]
  /\ hist' = [hist EXCEPT !.cycles_started = @ + 1]
  /\ UNCHANGED <<parsed_signals, fetch_vars, ctl_vars, rows, now, cycle_vars, successful_runs, failed_runs,
                 last_run_result, last_run_error, sched_vars, manual_vars>>

(* variant: a cycle that raised is recorded but not counted *)
ExecuteRecord_uncounted_failure ==
  /\ pc["worker"] \in {"returned", "raised"}
  /\ IF pc["worker"] = "returned"
     THEN /\ last_run_result' = "success"
          /\ last_run_error' = NoError
          /\ successful_runs' = successful_runs + 1
          /\ failed_runs' = failed_runs
     ELSE /\ last_run_result' = "error"
          /\ last_run_error' = cycle_error["worker"]
          /\ failed_runs' = failed_runs
          /\ successful_runs' = successful_runs
  /\ pc' = [pc EXCEPT !["worker"] = "recorded"]
  /\ notifications_data' = [notifications_data EXCEPT !["worker"] = {}]
  /\ cycle_error' = [cycle_error EXCEPT !["worker"] = NoError]
  /\ UNCHANGED <<parsed_signals, fetch_vars, ctl_vars, rows, now, processed_signals, save_results, validation_results,
                 api_errors, raw_signals_data, total_runs, sched_vars,
                 manual_vars, hist>>

(* _execute_signal_processing, after the cycle: the result is recorded *)
ExecuteRecord ==
  /\ pc["worker"] \in {"returned", "raised"}
  /\ IF pc["worker"] = "returned"
     THEN /\ last_run_result' = "success"
          /\ last_run_error' = NoError
          /\ successful_runs' = successful_runs + 1
          /\ failed_runs' = failed_runs
     ELSE /\ last_run_result' = "error"
          /\ last_run_error' = cycle_error["worker"]
          /\ failed_runs' = failed_runs + 1
          /\ successful_runs' = successful_runs
  /\ pc' = [pc EXCEPT !["worker"] = "recorded"]
  /\ notifications_data' = [notifications_data EXCEPT !["worker"] = {}]
  /\ cycle_error' = [cycle_error EXCEPT !["worker"] = NoError]
  /\ UNCHANGED <<parsed_signals, fetch_vars, ctl_vars, rows, now, processed_signals, save_results, validation_results,
                 api_errors, raw_signals_data, total_runs, sched_vars,
                 manual_vars, hist>>

(* the worker thread ends *)
ThreadExit ==
  /\ pc["worker"] = "recorded"
  /\ job_thread' = "dead"
  /\ pc' = [pc EXCEPT !["worker"] = "idle"]
  /\ UNCHANGED <<parsed_signals, fetch_vars, ctl_vars, rows, now, cycle_vars, ledger_vars, is_running,
                 shutdown_requested, loop_pc, due_left, manual_vars, hist>>

(* run_manual() called by m: rejected, or the cycle starts in m's thread;   *)
(* limit bounds the cycles of a run                                        *)
RunManual(m, limit) ==
  /\ pc[m] = "idle"
  /\ IF job_thread = "alive"
     THEN /\ manual_result' = [manual_result EXCEPT ![m] = "already_running"]
          /\ manual_error' = [manual_error EXCEPT ![m] = BusyError]
          /\ UNCHANGED <<pc, hist>>
     ELSE /\ hist.cycles_started < limit
          /\ pc' = [pc EXCEPT ![m] = "fetch"]
          /\ manual_result' = [manual_result EXCEPT ![m] = "pending"]
          /\ manual_error' = [manual_error EXCEPT ![m] = NoError]
          /\ hist' = [hist EXCEPT !.cycles_started = @ + 1]
  /\ UNCHANGED <<parsed_signals, fetch_vars, ctl_vars, rows, now, cycle_vars, ledger_vars, sched_vars>>

(* run_manual() returns what its cycle gave *)
ManualReturn(m) ==
  /\ pc[m] \in {"returned", "raised"}
  /\ manual_result' =
       [manual_result EXCEPT ![m] = IF pc[m] = "returned" THEN "success" ELSE "error"]
  /\ manual_error' =
       [manual_error EXCEPT ![m] = IF pc[m] = "returned" THEN NoError
                                   ELSE cycle_error[m]]
  /\ pc' = [pc EXCEPT ![m] = "idle"]
  /\ notifications_data' = [notifications_data EXCEPT ![m] = {}]
  /\ cycle_error' = [cycle_error EXCEPT ![m] = NoError]
  /\ UNCHANGED <<parsed_signals, fetch_vars, ctl_vars, rows, now, processed_signals, save_results, validation_results,
                 api_errors, raw_signals_data, ledger_vars, sched_vars, hist>>

(* the clock *)
AdvanceTime ==
  /\ \E d \in TimeSteps : now + d <= MaxTime /\ now' = now + d
  /\ UNCHANGED <<parsed_signals, fetch_vars, ctl_vars, rows, pc, cycle_vars, ledger_vars, sched_vars, manual_vars, hist>>

(* save_signals_batch called by m with a batch of its own, one of batches: *)
(* the counts are returned, or DatabaseError is raised                     *)
SaveSignalsBatchOf(m, batches) ==
  /\ pc[m] = "idle"
  /\ hist.batch_calls < MaxBatchCalls
  /\ \E signals \in batches :
       /\ processed_signals' = [processed_signals EXCEPT ![m] = signals]
       /\ \E o \in save_signals_batch(rows, signals, now) :
            IF o.raised
            THEN /\ pc' = [pc EXCEPT ![m] = "batch_raised"]
                 /\ UNCHANGED <<rows, save_results>>
            ELSE /\ pc' = [pc EXCEPT ![m] = "batch_returned"]
                 /\ rows' = o.rows
                 /\ save_results' = [save_results EXCEPT ![m] = o.results]
  /\ hist' = [hist EXCEPT !.batch_calls = @ + 1]
  /\ UNCHANGED <<parsed_signals, fetch_vars, ctl_vars, now, validation_results, api_errors, raw_signals_data,
                 notifications_data, cycle_error, ledger_vars, sched_vars,
                 manual_vars>>

SaveSignalsBatch(m) == SaveSignalsBatchOf(m, DirectBatches)

(* the caller goes on *)
SaveSignalsBatchDone(m) ==
  /\ pc[m] \in {"batch_returned", "batch_raised"}
  /\ pc' = [pc EXCEPT ![m] = "idle"]
  /\ Forget(m)
  /\ UNCHANGED <<parsed_signals, fetch_vars, ctl_vars, rows, now, notifications_data, ledger_vars, sched_vars,
                 manual_vars, hist>>

(* analyze_confidence_warnings called by m with one observation of any     *)
(* confidence, known or not                                                *)
ConfidenceValues == (0..MaxConfidence) \cup {None}

(* the lists the caller has: one observation of any confidence, or two of  *)
(* a few confidences on both sides of the thresholds                       *)
PairConfidences == {None, 40, 80, 96}

AnalyzerInputs ==
  {<<Obs(tk, "1h", Plain, c, 8, "main")>> : tk \in Tickers, c \in ConfidenceValues}
  \cup
  {<<Obs("BTC", "1h", Plain, c, 8, "main"), Obs("BTC", "1h", d, e, 8, "correction")>> :
     c \in PairConfidences, e \in PairConfidences, d \in Contracts}

AnalyzerInput(m) ==
  /\ pc[m] = "idle"
  /\ \E signals \in AnalyzerInputs :
       parsed_signals' = [parsed_signals EXCEPT ![m] = signals]
  /\ pc' = [pc EXCEPT ![m] = "parsed"]
  /\ UNCHANGED <<fetch_vars, ctl_vars, rows, now, cycle_vars, ledger_vars,
                 sched_vars, manual_vars, hist>>

(* the call: every observation is copied and the copy gets its warnings;   *)
(* the list given is left as it is                                         *)
AnalyzeConfidence(m) ==
  /\ pc[m] = "parsed"
  /\ processed_signals' =
       [processed_signals EXCEPT ![m] = analyze_confidence_warnings(parsed_signals[m])]
  /\ pc' = [pc EXCEPT ![m] = "analyzed"]
  /\ UNCHANGED <<parsed_signals, fetch_vars, ctl_vars, rows, now, save_results, validation_results, api_errors,
                 raw_signals_data, notifications_data, cycle_error, ledger_vars,
                 sched_vars, manual_vars, hist>>

(* the caller goes on *)
AnalyzeConfidenceDone(m) ==
  /\ pc[m] = "analyzed"
  /\ pc' = [pc EXCEPT ![m] = "idle"]
  /\ Forget(m)
  /\ parsed_signals' = [parsed_signals EXCEPT ![m] = <<>>]
  /\ UNCHANGED <<fetch_vars, ctl_vars, rows, now, notifications_data, ledger_vars, sched_vars,
                 manual_vars, hist>>

(***************************************************************************)
(* stop(), force_stop() and get_status() step by step.  stop() is called   *)
(* by _signal_handler, which Python runs in the thread of the loop: the    *)
(* loop stands still until stop() returns (LoopRuns).  force_stop() and    *)
(* get_status() are called by threads of their own.                        *)
(***************************************************************************)
Running == process = "running"
LoopRuns == stop_pc # "waiting"

(* stop(): the flags, and the test before the wait *)
StopCall ==
  /\ stop_pc = "idle"
  /\ loop_pc \in {"loop", "pending"}
  /\ shutdown_requested' = TRUE
  /\ is_running' = FALSE
  /\ waited' = 0
  /\ stop_pc' = IF job_thread = "alive" THEN "waiting" ELSE "returned"
  /\ UNCHANGED <<parsed_signals, fetch_vars, rows, now, pc, cycle_vars, ledger_vars, job_thread, loop_pc,
                 due_left, manual_vars, force_pc, process, status_pc, status_dict,
                 hist>>

(* variant: the wait has no limit *)
StopWait_unbounded ==
  /\ stop_pc = "waiting"
  /\ IF job_thread = "alive"
     THEN /\ waited' = waited + PollSeconds
          /\ stop_pc' = "waiting"
     ELSE /\ waited' = waited
          /\ stop_pc' = "returned"
  /\ UNCHANGED <<parsed_signals, fetch_vars, rows, now, pc, cycle_vars, ledger_vars, sched_vars,
                 manual_vars, force_pc, process, status_pc, status_dict, hist>>

(* stop(): one test of the while loop; time.sleep(10) and waited += 10, or *)
(* the loop is left and stop() returns                                     *)
StopWait ==
  /\ stop_pc = "waiting"
  /\ IF job_thread = "alive" /\ waited < max_wait
     THEN /\ waited' = waited + PollSeconds
          /\ stop_pc' = "waiting"
     ELSE /\ waited' = waited
          /\ stop_pc' = "returned"
  /\ UNCHANGED <<parsed_signals, fetch_vars, rows, now, pc, cycle_vars, ledger_vars, sched_vars,
                 manual_vars, force_pc, process, status_pc, status_dict, hist>>

(* force_stop(): the flags, and the test of the worker *)
ForceStopCall ==
  /\ force_pc = "idle"
  /\ loop_pc \in {"loop", "pending"}
  /\ shutdown_requested' = TRUE
  /\ is_running' = FALSE
  /\ force_pc' = IF job_thread = "alive" THEN "joining" ELSE "no_worker"
  /\ UNCHANGED <<parsed_signals, fetch_vars, rows, now, pc, cycle_vars, ledger_vars, job_thread, loop_pc,
                 due_left, manual_vars, stop_pc, waited, process, status_pc,
                 status_dict, hist>>

(* force_stop(): job_thread.join(timeout=2) returns, the worker over or not *)
ForceStopJoin ==
  /\ force_pc = "joining"
  /\ force_pc' = "joined"
  /\ UNCHANGED <<parsed_signals, fetch_vars, rows, now, pc, cycle_vars, ledger_vars, sched_vars,
                 manual_vars, stop_pc, waited, process, status_pc, status_dict, hist>>

(* force_stop(): the test after the join; os._exit(1) when the thread of   *)
(* self.job_thread is alive                                                *)
ForceStopCheck ==
  /\ force_pc = "joined"
  /\ IF job_thread = "alive"
     THEN /\ process' = "exited"
          /\ force_pc' = "exited"
     ELSE /\ process' = process
          /\ force_pc' = "returning"
  /\ UNCHANGED <<parsed_signals, fetch_vars, rows, now, pc, cycle_vars, ledger_vars, sched_vars,
                 manual_vars, stop_pc, waited, status_pc, status_dict, hist>>

(* force_stop(): the last print, and the return *)
ForceStopReturn ==
  /\ force_pc \in {"returning", "no_worker"}
  /\ force_pc' = "returned"
  /\ UNCHANGED <<parsed_signals, fetch_vars, rows, now, pc, cycle_vars, ledger_vars, sched_vars,
                 manual_vars, stop_pc, waited, process, status_pc, status_dict, hist>>

(* the dict of get_status; success_rate is the fraction num / den times    *)
(* 100; last_run_success "none" stands for None                            *)
NoStatus ==
  [is_running |-> FALSE, total_runs |-> 0, successful_runs |-> 0,
   failed_runs |-> 0, success_rate |-> [num |-> 0, den |-> 1],
   last_run_success |-> "none"]

(* get_status(): the dict is built from the fields *)
GetStatusCall ==
  /\ status_pc \in {"idle", "returned"}
  /\ status_dict' = [NoStatus EXCEPT !.is_running = is_running,
                                !.total_runs = total_runs,
                                !.successful_runs = successful_runs,
                                !.failed_runs = failed_runs]
  /\ status_pc' = "built"
  /\ UNCHANGED <<parsed_signals, fetch_vars, rows, now, pc, cycle_vars, ledger_vars, sched_vars,
                 manual_vars, stop_pc, waited, force_pc, process, hist>>

(* get_status(): success_rate, from the fields as they are now *)
GetStatusRate ==
  /\ status_pc = "built"
  /\ status_dict' = IF total_runs > 0
               THEN [status_dict EXCEPT !.success_rate =
                                      [num |-> successful_runs, den |-> total_runs]]
               ELSE status_dict
  /\ status_pc' = "rated"
  /\ UNCHANGED <<parsed_signals, fetch_vars, rows, now, pc, cycle_vars, ledger_vars, sched_vars,
                 manual_vars, stop_pc, waited, force_pc, process, hist>>

(* get_status(): last_run_success, and the dict is returned *)
GetStatusReturn ==
  /\ status_pc = "rated"
  /\ status_dict' = [status_dict EXCEPT !.last_run_success =
                                 IF last_run_result = "none" THEN "none"
                                 ELSE IF last_run_result = "success" THEN "true"
                                 ELSE "false"]
  /\ status_pc' = "returned"
  /\ UNCHANGED <<parsed_signals, fetch_vars, rows, now, pc, cycle_vars, ledger_vars, sched_vars,
                 manual_vars, stop_pc, waited, force_pc, process, hist>>

(***************************************************************************)
(* SignalAPIClient.get_multi_signal.  What one request can end with: a     *)
(* response with a status and a body that is JSON or not, a timeout, a     *)
(* connection error, or another exception.                                 *)
(***************************************************************************)
StatusCodes == {200, 400, 404, 499, 500, 503}

Outcomes ==
  [kind : {"response"}, status_code : StatusCodes, json : BOOLEAN]
  \cup [kind : {"timeout", "connection", "other"}, status_code : {0}, json : {FALSE}]

(* bool(response): requests gives a Response the truth value of its ok,    *)
(* which is false for every status raise_for_status() raises on            *)
response_truth(response) == response.status_code < 400

(* the test of the HTTPError handler that ends the call without a retry *)
stops_on(response) ==
  /\ response_truth(response)
  /\ 400 <= response.status_code /\ response.status_code < 500

(* the call: for attempt in range(retries + 1) *)
GetMultiSignal ==
  /\ fetch_pc = "idle"
  /\ \E tk \in Tickers, n \in 0..MaxRetries :
       /\ fetch_ticker' = tk
       /\ fetch_retries' = n
  /\ fetch_attempt' = 0
  /\ fetch_log' = <<>>
  /\ fetch_result' = "none"
  /\ fetch_pc' = "request"
  /\ UNCHANGED <<parsed_signals, ctl_vars, rows, now, pc, cycle_vars, ledger_vars,
                 sched_vars, manual_vars, hist>>

(* one pass of the loop: the request, and what the try and its handlers do *)
(* with what came back                                                     *)
FetchAttempt ==
  /\ fetch_pc = "request"
  /\ \E o \in Outcomes :
       LET again == /\ fetch_attempt' = fetch_attempt + 1
                    /\ UNCHANGED <<fetch_pc, fetch_result>>
           give(result) == /\ fetch_result' = result
                           /\ fetch_pc' = "returned"
                           /\ UNCHANGED fetch_attempt
       IN  /\ fetch_log' = Append(fetch_log, o)
           /\ IF o.kind = "response" /\ o.status_code < 400
              THEN IF o.json THEN give("data") ELSE give("none")
              ELSE IF o.kind \in {"timeout", "connection"}
              THEN IF fetch_attempt < fetch_retries THEN again ELSE give("none")
              ELSE IF o.kind = "response"
              THEN IF stops_on(o) THEN give("none")
                   ELSE IF fetch_attempt < fetch_retries THEN again
                   ELSE give("none")
              ELSE give("none")
  /\ UNCHANGED <<fetch_ticker, fetch_retries>>
  /\ UNCHANGED <<parsed_signals, ctl_vars, rows, now, pc, cycle_vars, ledger_vars,
                 sched_vars, manual_vars, hist>>

(* the caller has the result *)
FetchReturn ==
  /\ fetch_pc = "returned"
  /\ fetch_pc' = "idle"
  /\ UNCHANGED <<fetch_ticker, fetch_retries, fetch_attempt, fetch_result, fetch_log>>
  /\ UNCHANGED <<parsed_signals, ctl_vars, rows, now, pc, cycle_vars, ledger_vars,
                 sched_vars, manual_vars, hist>>

Init ==
  /\ rows = <<>>
  /\ now = 0
  /\ pc = [r \in Runners |-> "idle"]
  /\ processed_signals = [r \in Runners |-> <<>>]
  /\ save_results = [r \in Runners |-> NoResults]
  /\ validation_results = [r \in Runners |-> NoValidation]
  /\ api_errors = [r \in Runners |-> 0]
  /\ raw_signals_data = [r \in Runners |-> NoRawData]
  /\ notifications_data = [r \in Runners |-> {}]
  /\ job_thread = "none"
  /\ is_running = FALSE
  /\ shutdown_requested = FALSE
  /\ total_runs = 0
  /\ successful_runs = 0
  /\ failed_runs = 0
  /\ last_run_result = "none"
  /\ loop_pc = "init"
  /\ due_left = 0
  /\ manual_result = [m \in ManualCallers |-> "none"]
  /\ manual_error = [m \in ManualCallers |-> NoError]
  /\ cycle_error = [r \in Runners |-> NoError]
  /\ last_run_error = NoError
  /\ stop_pc = "idle"
  /\ waited = 0
  /\ force_pc = "idle"
  /\ process = "running"
  /\ status_pc = "idle"
  /\ status_dict = NoStatus
  /\ parsed_signals = [r \in Runners |-> <<>>]
  /\ fetch_pc = "idle"
  /\ fetch_ticker = ""
  /\ fetch_retries = DefaultRetries
  /\ fetch_attempt = 0
  /\ fetch_result = "none"
  /\ fetch_log = <<>>
  /\ hist = [cycles_started |-> 0, last_job |-> "none", batch_calls |-> 0]

(***************************************************************************)
(* Spec: cycles run one after the other by one caller of run_manual, over  *)
(* every batch.  SchedSpec: the loop, the worker and two callers of        *)
(* run_manual interleaved, over the narrower batches.                      *)
(***************************************************************************)
Next ==
  \/ RunManual("m1", MaxCycles)
  \/ CycleSave("m1", Batches)
  \/ CycleRaise("m1")
  \/ CycleValidate("m1")
  \/ CycleNotify("m1")
  \/ ManualReturn("m1")
  \/ AdvanceTime

Spec == Init /\ [][Next]_vars

SchedNext ==
  \/ Start
  \/ Tick
  \/ Dispatch
  \/ LoopExit
  \/ Stop
  \/ ExecuteBegin
  \/ ExecuteRecord
  \/ ThreadExit
  \/ \E m \in ManualCallers : RunManual(m, MaxSchedCycles)
  \/ \E m \in ManualCallers : ManualReturn(m)
  \/ \E r \in Runners : CycleSave(r, SchedBatches)
  \/ \E r \in Runners : CycleRaise(r)
  \/ \E r \in Runners : CycleValidate(r)
  \/ \E r \in Runners : CycleNotify(r)

SchedSpec == Init /\ [][SchedNext]_vars

BatchNext ==
  \/ SaveSignalsBatch("m1")
  \/ SaveSignalsBatchDone("m1")
  \/ AdvanceTime

BatchSpec == Init /\ [][BatchNext]_vars

(* the scheduler's worker alone, its cycles fed by the responses of the API *)
PipeNext ==
  \/ Start
  \/ Tick
  \/ Dispatch
  \/ ExecuteBegin
  \/ CycleFetch("worker")
  \/ CycleValidate("worker")
  \/ CycleNotify("worker")
  \/ ExecuteRecord
  \/ ThreadExit

PipeSpec == Init /\ [][PipeNext]_vars

(* the loop and the worker, with a stop() arriving as a signal *)
StopNext ==
  \/ Start
  \/ LoopRuns /\ Tick
  \/ LoopRuns /\ Dispatch
  \/ LoopRuns /\ LoopExit
  \/ ExecuteBegin
  \/ CycleSave("worker", SchedBatches)
  \/ CycleRaise("worker")
  \/ CycleValidate("worker")
  \/ CycleNotify("worker")
  \/ ExecuteRecord
  \/ ThreadExit
  \/ StopCall
  \/ StopWait

StopSpec == Init /\ [][StopNext]_vars

(* stop() is a thread that runs: a sleep of ten seconds ends *)
StopFairSpec == StopSpec /\ WF_vars(StopWait)

(* the loop and the worker, with force_stop() called by another thread;    *)
(* after os._exit nothing runs                                             *)
ForceNext ==
  \/ Running /\ Start
  \/ Running /\ Tick
  \/ Running /\ Dispatch
  \/ Running /\ LoopExit
  \/ Running /\ ExecuteBegin
  \/ Running /\ CycleSave("worker", SchedBatches)
  \/ Running /\ CycleRaise("worker")
  \/ Running /\ CycleValidate("worker")
  \/ Running /\ CycleNotify("worker")
  \/ Running /\ ExecuteRecord
  \/ Running /\ ThreadExit
  \/ Running /\ ForceStopCall
  \/ Running /\ ForceStopJoin
  \/ Running /\ ForceStopCheck
  \/ Running /\ ForceStopReturn

ForceSpec == Init /\ [][ForceNext]_vars

(* the loop and the worker, with get_status() called by another thread *)
StatusNext ==
  \/ Start
  \/ Tick
  \/ Dispatch
  \/ ExecuteBegin
  \/ CycleSave("worker", SchedBatches)
  \/ CycleRaise("worker")
  \/ CycleValidate("worker")
  \/ CycleNotify("worker")
  \/ ExecuteRecord
  \/ ThreadExit
  \/ GetStatusCall
  \/ GetStatusRate
  \/ GetStatusReturn

StatusSpec == Init /\ [][StatusNext]_vars

(* the worker and a caller of run_manual whose cycles fail with either     *)
(* message, and get_status() called by another thread                      *)
ErrNext ==
  \/ Start
  \/ Tick
  \/ Dispatch
  \/ ExecuteBegin
  \/ ExecuteRecord
  \/ ThreadExit
  \/ RunManual("m1", MaxSchedCycles)
  \/ ManualReturn("m1")
  \/ \E r \in {"worker", "m1"} : CycleSave(r, SchedBatches)
  \/ \E r \in {"worker", "m1"} : CycleRaiseWith(r, CycleErrors)
  \/ \E r \in {"worker", "m1"} : CycleValidate(r)
  \/ \E r \in {"worker", "m1"} : CycleNotify(r)
  \/ GetStatusCall
  \/ GetStatusRate
  \/ GetStatusReturn

ErrSpec == Init /\ [][ErrNext]_vars

(* cycles by run_manual over the priced batches, next to direct calls of   *)
(* save_signals_batch with an observation that has no price                *)
PriceNext ==
  \/ SaveSignalsBatchOf("m2", UnpricedBatches)
  \/ SaveSignalsBatchDone("m2")
  \/ RunManual("m1", MaxSchedCycles)
  \/ CycleSave("m1", PricedBatches)
  \/ CycleRaise("m1")
  \/ CycleValidate("m1")
  \/ CycleNotify("m1")
  \/ ManualReturn("m1")
  \/ AdvanceTime

PriceSpec == Init /\ [][PriceNext]_vars

(* cycles by run_manual fed by responses of the format with main_signal    *)
(* and correction_signal                                                   *)
CorrectionNext ==
  \/ RunManual("m1", MaxSchedCycles)
  \/ CycleFetchOf("m1", NestedSignalsData)
  \/ CycleRaise("m1")
  \/ CycleValidate("m1")
  \/ CycleNotify("m1")
  \/ ManualReturn("m1")
  \/ AdvanceTime

CorrectionSpec == Init /\ [][CorrectionNext]_vars

(* calls of get_multi_signal one after the other *)
(* cycles by run_manual in which the store can fail during the save *)
RollbackNext ==
  \/ RunManual("m1", MaxSchedCycles)
  \/ CycleSave("m1", Batches)
  \/ CycleSaveInterrupted("m1", Batches)
  \/ CycleValidate("m1")
  \/ CycleNotify("m1")
  \/ ManualReturn("m1")
  \/ AdvanceTime

RollbackSpec == Init /\ [][RollbackNext]_vars

FetchNext ==
  \/ GetMultiSignal
  \/ FetchAttempt
  \/ FetchReturn

FetchSpec == Init /\ [][FetchNext]_vars

(* calls of analyze_confidence_warnings one after the other *)
AnalyzerNext ==
  \/ AnalyzerInput("m1")
  \/ AnalyzeConfidence("m1")
  \/ AnalyzeConfidenceDone("m1")

AnalyzerSpec == Init /\ [][AnalyzerNext]_vars

(* start(run_immediately=True), the loop and the worker *)
ImmediateNext ==
  \/ StartWith(TRUE)
  \/ Tick
  \/ Dispatch
  \/ ExecuteBegin
  \/ CycleSave("worker", SchedBatches)
  \/ CycleRaise("worker")
  \/ CycleValidate("worker")
  \/ CycleNotify("worker")
  \/ ExecuteRecord
  \/ ThreadExit

ImmediateSpec == Init /\ [][ImmediateNext]_vars

(***************************************************************************)
(* Steps and observations the properties speak about.                      *)
(***************************************************************************)
(* a step in which runner r's save_signals_batch commits *)
SaveStep(r) == pc[r] = "fetch" /\ pc'[r] = "validate"

(* a step in which runner r's validate_active_signals commits *)
ValidateStep(r) ==
  pc[r] = "validate" /\ pc'[r] = "notify" /\ validation_results'[r].errors = 0

(* the price runner r's re-validation has for a row: the price of the      *)
(* first observation fetched for the row's ticker, else the row's own      *)
PriceSeen(r, signal) ==
  LET own == {k \in DOMAIN processed_signals[r] :
                processed_signals[r][k].ticker = signal.ticker}
  IN  IF own # {}
      THEN processed_signals[r][CHOOSE k \in own : \A j \in own : k <= j].current_price
      ELSE signal.current_price

StopFires(signal, p) ==
  /\ signal.stop_loss # 0
  /\ \/ signal.signal_type = "LONG" /\ p <= signal.stop_loss
     \/ signal.signal_type = "SHORT" /\ p >= signal.stop_loss

TakeFires(signal, p) ==
  /\ signal.take_profit # 0
  /\ \/ signal.signal_type = "LONG" /\ p >= signal.take_profit
     \/ signal.signal_type = "SHORT" /\ p <= signal.take_profit

Rank(status) ==
  IF status = "new" THEN 0
  ELSE IF status = "entry_hit" THEN 1
  ELSE IF status = "active" THEN 2
  ELSE 3

Unresolved(signal) == signal.status \in {"new", "entry_hit", "active"}
Fresh(signal) == signal.created_at + WindowMinutes >= now
SameKey(signal, o) == signal.ticker = o.ticker /\ signal.timeframe = o.timeframe

(***************************************************************************)
(* C1: in every reachable state at most one processing cycle (one          *)
(* execution of fetch_and_process_all_signals) is in progress.             *)
(* Violated: run_manual runs its cycle in the caller's thread and looks    *)
(* only at job_thread, so a manual cycle overlaps a worker or another      *)
(* manual cycle.                                                           *)
(***************************************************************************)
C1_AtMostOneCycle == Cardinality(CyclesInProgress) <= 1

(***************************************************************************)
(* C2: a due trigger dispatched while the worker thread is alive starts no *)
(* worker and changes no runner, ledger counter or row; and it is not      *)
(* remembered: a worker thread starts only in the step that dispatches a   *)
(* due trigger or makes the immediate run of start().                      *)
(***************************************************************************)
C2_SkippedTriggerIsNoOp ==
  [][ /\ (due_left' = due_left - 1 /\ job_thread = "alive")
         => /\ job_thread' = "alive"
            /\ pc' = pc
            /\ rows' = rows
            /\ UNCHANGED <<total_runs, successful_runs, failed_runs, last_run_result>>
      /\ (job_thread # "alive" /\ job_thread' = "alive")
         => (due_left' = due_left - 1 \/ loop_pc = "init")
      /\ (pc["worker"] = "idle" /\ pc'["worker"] # "idle")
         => (job_thread # "alive" /\ job_thread' = "alive") ]_vars

(* a trigger has been skipped while the worker is inside its cycle *)
C2_Witness ==
  /\ hist.last_job = "skipped"
  /\ job_thread = "alive"
  /\ InCycle("worker")
  /\ total_runs = 1

(***************************************************************************)
(* C3: total_runs equals the number of cycles whose execution has started, *)
(* scheduled or manual.                                                    *)
(* Violated: run_manual executes a cycle and never touches the ledger.     *)
(***************************************************************************)
C3_TotalRunsCountsCycles == total_runs = hist.cycles_started

(***************************************************************************)
(* C4: run_manual called while no thread is busy starts a cycle, and a     *)
(* cycle that returns makes it return success; called while any cycle is   *)
(* in flight it starts no cycle, changes no row and returns the 'already   *)
(* running' error.                                                         *)
(* Violated: a cycle in flight in another caller's thread is not seen.     *)
(***************************************************************************)
C4_RunManualGuard ==
  [][ \A m \in ManualCallers :
        LET called == pc[m] = "idle" /\
                      (pc'[m] # "idle" \/ manual_result'[m] # manual_result[m])
        IN  /\ (called /\ job_thread # "alive" /\ \A r \in Runners : pc[r] = "idle")
                 => pc'[m] = "fetch"
            /\ (pc[m] = "returned" /\ pc'[m] = "idle")
                 => manual_result'[m] = "success"
            /\ (called /\ CyclesInProgress # {})
                 => /\ pc'[m] = "idle"
                    /\ rows' = rows
                    /\ manual_result'[m] = "already_running" ]_vars

(***************************************************************************)
(* C5: no row is ever removed and no row's status moves backward in the    *)
(* order new < entry_hit < active < {tp_hit, sl_hit}.                      *)
(***************************************************************************)
C5_StatusNeverBackward ==
  [][ \A i \in DOMAIN rows :
        /\ i \in DOMAIN rows'
        /\ Rank(rows'[i].status) >= Rank(rows[i].status) ]_vars

(* a row has gone all the way to a terminal status through active *)
C5_Witness ==
  \E i \in DOMAIN rows :
    /\ rows[i].status = "tp_hit"
    /\ hist.cycles_started = 3
    /\ rows[i].current_price = rows[i].take_profit

(***************************************************************************)
(* C6: once a row's status is tp_hit or sl_hit it is the same in every     *)
(* later state.                                                            *)
(***************************************************************************)
C6_TerminalIsAbsorbing ==
  [][ \A i \in DOMAIN rows :
        rows[i].status \in {"tp_hit", "sl_hit"}
          => (i \in DOMAIN rows' /\ rows'[i].status = rows[i].status) ]_vars

(* a re-validation has just run with a price at which the stop of a LONG   *)
(* row in tp_hit would fire                                                *)
C6_Witness ==
  \E r \in Runners : \E i \in DOMAIN rows :
    /\ pc[r] = "notify"
    /\ validation_results[r].errors = 0
    /\ rows[i].status = "tp_hit"
    /\ StopFires(rows[i], PriceSeen(r, rows[i]))
    /\ \E k \in DOMAIN processed_signals[r] :
         processed_signals[r][k].ticker = rows[i].ticker

(***************************************************************************)
(* C7: for a row in entry_hit or active, a price that satisfies both the   *)
(* stop-loss and the take-profit condition gives sl_hit.                   *)
(***************************************************************************)
C7_StopLossPriority ==
  [][ \A r \in Runners :
        ValidateStep(r) =>
          \A i \in DOMAIN rows :
            LET p == PriceSeen(r, rows[i])
            IN  (/\ rows[i].status \in {"entry_hit", "active"}
                 /\ p # 0
                 /\ StopFires(rows[i], p)
                 /\ TakeFires(rows[i], p))
                  => rows'[i].status = "sl_hit" ]_vars

(* a row whose stop and take-profit both hold at its price ended in sl_hit *)
C7_Witness ==
  \E i \in DOMAIN rows :
    /\ rows[i].status = "sl_hit"
    /\ StopFires(rows[i], rows[i].current_price)
    /\ TakeFires(rows[i], rows[i].current_price)

(***************************************************************************)
(* C8: from status new a LONG row becomes entry_hit exactly when the price *)
(* is at or below its entry and a SHORT row exactly when the price is at   *)
(* or above it; otherwise the row stays new.                               *)
(***************************************************************************)
C8_EntryFill ==
  [][ \A r \in Runners :
        ValidateStep(r) =>
          \A i \in DOMAIN rows :
            LET p == PriceSeen(r, rows[i])
                fills == \/ rows[i].signal_type = "LONG" /\ p <= rows[i].entry_price
                         \/ rows[i].signal_type = "SHORT" /\ p >= rows[i].entry_price
            IN  (rows[i].status = "new" /\ p # 0)
                  => rows'[i].status = IF fills THEN "entry_hit" ELSE "new" ]_vars

(* a LONG and a SHORT row filled at a price equal to their entry *)
C8_Witness ==
  /\ \E i \in DOMAIN rows :
       /\ rows[i].signal_type = "LONG" /\ rows[i].status = "entry_hit"
       /\ rows[i].current_price = rows[i].entry_price
  /\ \E i \in DOMAIN rows :
       /\ rows[i].signal_type = "SHORT" /\ rows[i].status = "entry_hit"
       /\ rows[i].current_price = rows[i].entry_price

(***************************************************************************)
(* C9: the entry_price of a row never changes after the row is created.    *)
(***************************************************************************)
C9_EntryPriceImmutable ==
  [][ \A i \in DOMAIN rows :
        i \in DOMAIN rows' /\ rows'[i].entry_price = rows[i].entry_price ]_vars

(* an observation with another entry has just been merged into a row *)
C9_Witness ==
  \E r \in Runners : \E i \in DOMAIN rows :
    /\ pc[r] = "validate"
    /\ Len(processed_signals[r]) = 1
    /\ save_results[r].saved_signals = 0
    /\ SameKey(rows[i], processed_signals[r][1])
    /\ Unresolved(rows[i]) /\ Fresh(rows[i])
    /\ processed_signals[r][1].entry_price # rows[i].entry_price

(***************************************************************************)
(* C10 as stated: an observation submitted again within the window, with   *)
(* the row still holding what the first submission stored, adds no row and *)
(* is counted as an update and not as a creation.                          *)
(* Violated: the updated count grows only when a value differs.            *)
(***************************************************************************)
StoredAs(signal, o) ==
  /\ signal.signal_type = o.signal_type
  /\ signal.entry_price = o.entry_price
  /\ signal.take_profit = o.take_profit
  /\ signal.stop_loss = o.stop_loss
  /\ signal.confidence = o.confidence
  /\ \A q \in Representable :
       Dist(signal.current_price, o.current_price) <= Dist(q, o.current_price)

C11_StaleRowIsNotReused ==
  [][ \A r \in Runners :
        (SaveStep(r) /\ Len(processed_signals'[r]) = 1) =>
          LET o == processed_signals'[r][1]
              unresolved == {i \in DOMAIN rows : SameKey(rows[i], o) /\ Unresolved(rows[i])}
          IN  (unresolved # {} /\ \A i \in unresolved : rows[i].created_at + WindowMinutes < now)
                => /\ Len(rows') = Len(rows) + 1
                   /\ \A i \in DOMAIN rows : rows'[i] = rows[i]
                   /\ rows'[Len(rows')].status = "new"
                   /\ rows'[Len(rows')].created_at = now
                   /\ SameKey(rows'[Len(rows')], o)
                   /\ StoredAs(rows'[Len(rows')], o)
                   /\ save_results'[r].saved_signals = 1 ]_vars

(* the observation of a row still new has been saved again 31 minutes     *)
(* later and stands beside it as a second row                              *)
C11_Witness ==
  \E r \in Runners :
    /\ pc[r] = "validate"
    /\ Len(rows) = 2
    /\ Len(processed_signals[r]) = 1
    /\ rows[1].status = "new" /\ rows[2].status = "new"
    /\ rows[1].created_at + WindowMinutes < rows[2].created_at
    /\ SameKey(rows[1], processed_signals[r][1])
    /\ StoredAs(rows[1], processed_signals[r][1])
    /\ StoredAs(rows[2], processed_signals[r][1])

(***************************************************************************)
(* Steps of a direct call of save_signals_batch.                           *)
(***************************************************************************)
BatchStep(m) == pc[m] = "idle" /\ pc'[m] \in {"batch_returned", "batch_raised"}

Sum(results) == results.saved_signals + results.updated_signals + results.errors

(***************************************************************************)
(* C12: for every batch, the counts save_signals_batch returns have total  *)
(* equal to the number of observations and created + updated + errors at   *)
(* most total, a single observation adding to at most one of the three;    *)
(* the same holds of the counts the loop has reached when the commit then  *)
(* fails.                                                                  *)
(***************************************************************************)
C12_CountsWithinTotal ==
  [][ \A m \in ManualCallers :
        BatchStep(m) =>
          LET signals == processed_signals'[m]
          IN  /\ \A o \in save_signals_from(rows, signals, NoResults, now, TRUE) :
                   /\ o.results.total_signals = Len(signals)
                   /\ Sum(o.results) <= o.results.total_signals
              /\ pc'[m] = "batch_returned"
                   => /\ save_results'[m].total_signals = Len(signals)
                      /\ Sum(save_results'[m]) <= Len(signals) ]_vars

(* a batch of two has returned with one creation and one update *)
C12_Witness ==
  \E m \in ManualCallers :
    /\ pc[m] = "batch_returned"
    /\ Len(processed_signals[m]) = 2
    /\ save_results[m] = [total_signals |-> 2, saved_signals |-> 1,
                          updated_signals |-> 1, errors |-> 0]

(***************************************************************************)
(* C13: a batch of five observations with five keys, one of them HOLD and  *)
(* one without entry_price, none matching a row, returns total 5, created  *)
(* 3, updated 0, errors 1 and adds the three other observations as rows.   *)
(* Violated: the HOLD observation is inserted like any other, the          *)
(* observation without entry is counted nowhere, and its failed insert     *)
(* makes the commit fail, so the batch raises and stores nothing.          *)
(***************************************************************************)
C13_HoldSkippedMissingEntryCounted ==
  [][ \A m \in ManualCallers :
        (BatchStep(m) /\ processed_signals'[m] \in FiveBatches) =>
          LET signals == processed_signals'[m]
              matches == {k \in 1..5 : \E i \in DOMAIN rows :
                            /\ SameKey(rows[i], signals[k])
                            /\ Unresolved(rows[i]) /\ Fresh(rows[i])}
          IN  matches = {}
                => /\ pc'[m] = "batch_returned"
                   /\ save_results'[m] = [total_signals |-> 5, saved_signals |-> 3,
                                          updated_signals |-> 0, errors |-> 1]
                   /\ Len(rows') = Len(rows) + 3
                   /\ \A i \in DOMAIN rows' : rows'[i].signal_type # "HOLD" ]_vars

(***************************************************************************)
(* C14: no row of the store ever has direction HOLD: parse, annotate and   *)
(* upsert never create one.                                                *)
(* Violated: the parser lets HOLD through (and turns every type it does    *)
(* not know into HOLD), the annotator drops nothing, and the upsert        *)
(* inserts the observation as it does any other.                           *)
(***************************************************************************)
C14_NoHoldRow ==
  \A i \in DOMAIN rows : rows[i].signal_type # "HOLD"

(* the tickers of a cycle's responses for which the fetch failed or the    *)
(* parse raised                                                            *)
FailedTickers(raw) ==
  {tk \in Tickers :
     raw[tk].kind = "none" \/ parse_signal_response(raw[tk], tk).raised}

(* the observations of ticker tk among signals, in order *)
OfTicker(signals, tk) == SelectSeq(signals, LAMBDA o : o.ticker = tk)

(***************************************************************************)
(* C16: a fetch failure or a parse exception for one instrument adds one   *)
(* to the cycle's error count and skips the instrument; the other          *)
(* instruments are still parsed, upserted and re-validated, and the cycle  *)
(* is recorded as a successful run.                                        *)
(***************************************************************************)
C16_TickerFailureIsContained ==
  [][ LET w == "worker"
      IN  /\ (pc[w] = "fetch" /\ pc'[w] # "fetch") =>
               LET raw == raw_signals_data'[w]
                   signals == processed_signals'[w]
               IN  /\ pc'[w] = "validate"
                   /\ api_errors'[w] = Cardinality(FailedTickers(raw))
                   /\ \A tk \in FailedTickers(raw) : OfTicker(signals, tk) = <<>>
                   /\ \A tk \in Tickers \ FailedTickers(raw) :
                        OfTicker(signals, tk) =
                          analyze_confidence_warnings(
                            parse_signal_response(raw[tk], tk).signals)
                   /\ \A k \in DOMAIN signals :
                        \E i \in DOMAIN rows' :
                          /\ SameKey(rows'[i], signals[k])
                          /\ Unresolved(rows'[i])
                          /\ rows'[i].created_at + WindowMinutes >= now
          /\ (pc[w] = "validate" /\ pc'[w] # "validate") => pc'[w] = "notify"
          /\ (pc[w] = "notify" /\ pc'[w] # "notify") => pc'[w] = "returned"
          /\ (pc[w] = "returned" /\ pc'[w] # "returned") =>
               /\ successful_runs' = successful_runs + 1
               /\ failed_runs' = failed_runs
               /\ last_run_result' = "success" ]_vars

(* one ticker failed, the other's observation was saved and re-validated *)
C16_Witness ==
  /\ pc["worker"] = "notify"
  /\ api_errors["worker"] = 1
  /\ Len(processed_signals["worker"]) = 1
  /\ validation_results["worker"].errors = 0
  /\ \E i \in DOMAIN rows : SameKey(rows[i], processed_signals["worker"][1])

(***************************************************************************)
(* C15: a scheduled cycle that meets a cycle-level failure, the store      *)
(* failing during the upsert or during the re-validation, is aborted and   *)
(* recorded as a failed run: failed_runs grows by one, successful_runs     *)
(* does not, last_run_result is an error; and the next due trigger starts  *)
(* a new cycle.                                                            *)
(* Violated: validate_active_signals catches the failure of the store      *)
(* itself and only counts it, the cycle goes on to the notifications and   *)
(* returns, and the run is recorded as a success.                          *)
(***************************************************************************)
C15_CycleFailureFailsTheRun ==
  [][ LET w == "worker"
      IN  /\ (pc[w] = "raised" /\ pc'[w] # "raised") =>
               /\ failed_runs' = failed_runs + 1
               /\ successful_runs' = successful_runs
               /\ last_run_result' = "error"
          /\ (pc[w] = "validate" /\ pc'[w] # "validate" /\
              validation_results'[w].errors > 0) => pc'[w] = "raised"
          /\ (loop_pc = "pending" /\ due_left' = due_left - 1 /\
              job_thread # "alive") => pc'[w] = "started" ]_vars

(* the (ticker, timeframe) pairs a frame of a payload can name *)
Keys == {[ticker |-> tk, timeframe |-> f] : tk \in Tickers, f \in Timeframes}
KeyOf(x) == [ticker |-> x.ticker, timeframe |-> x.timeframe]

(***************************************************************************)
(* C17: a cycle emits a notification frame for a signal exactly when the   *)
(* signal was created or changed status in that cycle; a cycle in which    *)
(* its status did not change emits none for it.  Stated for the cycles     *)
(* that fetched at most one observation, at the step of the re-validation, *)
(* which is the last that changes a status and after which the payload of  *)
(* the cycle is determined.                                                *)
(* Violated: the payload has a frame for every observation fetched when    *)
(* the save created or updated anything, and the status changes of the     *)
(* re-validation are not looked at.                                        *)
(***************************************************************************)
C17_FrameOncePerStatusChange ==
  [][ LET r == "m1"
          signals == processed_signals[r]
          frames == notification_frames(signals, save_results[r])
      IN  (pc[r] = "validate" /\ pc'[r] = "notify" /\ Len(signals) <= 1) =>
            \A key \in Keys :
              key \in frames <=>
                \/ \E i \in DOMAIN rows :
                     KeyOf(rows[i]) = key /\ rows'[i].status # rows[i].status
                \/ /\ Len(signals) = 1
                   /\ KeyOf(signals[1]) = key
                   /\ save_results[r].saved_signals = 1 ]_vars

(***************************************************************************)
(* C18: stop() always returns.  It sets the shutdown request; while the    *)
(* worker is alive it waits in polls of 10 seconds, 240 seconds at most;   *)
(* when the worker is still alive after that it returns all the same, and  *)
(* no step of it touches the worker, the cycle or the store.               *)
(***************************************************************************)
C18_StopAlwaysReturns ==
  /\ [](waited <= max_wait)
  /\ [][ /\ (stop_pc = "idle" /\ stop_pc' # "idle") =>
              /\ shutdown_requested' /\ ~is_running'
              /\ stop_pc' = "waiting" <=> job_thread = "alive"
         /\ (stop_pc' # stop_pc \/ waited' # waited) =>
              /\ job_thread' = job_thread /\ pc' = pc /\ rows' = rows
              /\ UNCHANGED <<cycle_vars, ledger_vars>>
         /\ (stop_pc = "waiting" /\ waited' # waited) =>
              /\ job_thread = "alive" /\ waited < max_wait
              /\ waited' = waited + PollSeconds
         /\ (stop_pc = "waiting" /\ stop_pc' # "waiting") =>
              /\ stop_pc' = "returned"
              /\ job_thread # "alive" \/ waited = max_wait ]_vars
  /\ (stop_pc = "waiting") ~> (stop_pc = "returned")

(* stop() has returned after the whole wait, and the worker is alive *)
C18_Witness ==
  /\ stop_pc = "returned"
  /\ waited = max_wait
  /\ job_thread = "alive"
  /\ shutdown_requested

(***************************************************************************)
(* C19: force_stop() called while a scheduled worker is in flight either   *)
(* ends the process or returns with no worker alive: the test after the    *)
(* join ends the process when the worker is alive, and at the return of    *)
(* force_stop() no scheduled worker is alive.                              *)
(* Violated: the loop can be in the middle of run_pending with another job *)
(* due; _run_signal_processing_job does not look at the shutdown request   *)
(* and starts a new worker after the test of force_stop() and before its   *)
(* return.                                                                 *)
(***************************************************************************)
C19_ForceStopLeavesNoWorker ==
  [][ /\ (force_pc = "joined" /\ force_pc' # "joined" /\ job_thread = "alive") =>
           process' = "exited"
      /\ (force_pc = "returning" /\ force_pc' = "returned") =>
           job_thread' # "alive" ]_vars

(* the rate of a dict of get_status is 100 * successful_runs / total_runs  *)
(* of the same dict, and 0 when its total_runs is 0                        *)
RateMatches(d) ==
  IF d.total_runs = 0 THEN d.success_rate.num = 0
  ELSE d.success_rate.num * d.total_runs = d.successful_runs * d.success_rate.den

(***************************************************************************)
(* C20: get_status() changes nothing of the scheduler, the ledger and the  *)
(* store and waits for nothing; the dict it returns has the counters of    *)
(* the ledger and success_rate = 100 * successful_runs / total_runs of     *)
(* those counters (0 when total_runs is 0); and a dict that was returned   *)
(* does not change when the ledger does.                                   *)
(* Violated: success_rate is computed from the fields of the scheduler     *)
(* read again after the counters were copied, and the worker can record    *)
(* its run in between.                                                     *)
(***************************************************************************)
C20_StatusIsASnapshot ==
  [][ /\ (status_pc' # status_pc) =>
           /\ rows' = rows /\ pc' = pc
           /\ UNCHANGED <<ledger_vars, sched_vars, cycle_vars>>
      /\ (status_pc # "built" /\ status_pc' = "built") =>
           /\ status_dict'.total_runs = total_runs
           /\ status_dict'.successful_runs = successful_runs
           /\ status_dict'.failed_runs = failed_runs
      /\ (status_pc = "rated" /\ status_pc' = "returned") => RateMatches(status_dict')
      /\ (status_pc = "returned" /\ status_pc' = "returned") =>
           status_dict' = status_dict ]_vars

(* the texts in a dict of get_status: its values other than the flag, the  *)
(* counters and the rate                                                   *)
StatusTexts(d) ==
  {d[k] : k \in DOMAIN d \ {"is_running", "total_runs", "successful_runs",
                            "failed_runs", "success_rate"}}

(***************************************************************************)
(* C21: while the last scheduled cycle is one that failed with message m,  *)
(* the dict get_status() returns contains m; and a run_manual() whose      *)
(* cycle fails returns the message of that failure.                        *)
(* Violated: get_status() takes only the 'success' key of last_run_result  *)
(* into its dict; the message is in no field of it.                        *)
(***************************************************************************)
C21_FailureMessageIsReported ==
  [][ /\ (status_pc = "rated" /\ status_pc' = "returned" /\
          last_run_result = "error") =>
           last_run_error \in StatusTexts(status_dict')
      /\ \A m \in ManualCallers :
           (pc[m] = "raised" /\ pc'[m] # "raised") =>
             /\ manual_result'[m] = "error"
             /\ manual_error'[m] = cycle_error[m] ]_vars

(* the worker start() itself started is in flight: no run has been         *)
(* recorded, and with run_immediately every later worker starts after it   *)
(* has ended                                                               *)
ImmediateInFlight ==
  job_thread = "alive" /\ successful_runs + failed_runs = 0

(***************************************************************************)
(* C22: with run_immediately, start() has completed a full cycle before    *)
(* the loop makes its first pass: no pass of the loop and no dispatch of a *)
(* due job happens while the immediate cycle is in flight.                 *)
(* Violated: start() hands the immediate cycle to a worker thread and      *)
(* enters the loop at once.                                                *)
(***************************************************************************)
C22_ImmediateCycleBeforeLoop ==
  [][ (loop_pc \in {"loop", "pending"} /\
       (loop_pc' # loop_pc \/ due_left' # due_left)) => ~ImmediateInFlight ]_vars

(* the warnings of an annotated observation, as a set of their types *)
WarningTypes(o) == {o.warnings[k] : k \in DOMAIN o.warnings}

(***************************************************************************)
(* C23: an observation with confidence c gets exactly the warnings         *)
(* high_confidence iff c >= 90, low_confidence iff c < 50 and              *)
(* potential_trend_conflict iff c > 95, each once, so the last only with   *)
(* the first; an observation of unknown confidence gets none.              *)
(***************************************************************************)
C23_ConfidenceWarnings ==
  pc["m1"] = "analyzed" =>
    LET o == processed_signals["m1"][1]
        c == o.confidence
    IN  IF c = None THEN o.warnings = <<>>
        ELSE /\ WarningTypes(o) \subseteq
                  {"high_confidence", "low_confidence", "potential_trend_conflict"}
             /\ Len(o.warnings) = Cardinality(WarningTypes(o))
             /\ "high_confidence" \in WarningTypes(o) <=> c >= 90
             /\ "low_confidence" \in WarningTypes(o) <=> c < 50
             /\ "potential_trend_conflict" \in WarningTypes(o) <=> c > 95
             /\ "potential_trend_conflict" \in WarningTypes(o) =>
                  "high_confidence" \in WarningTypes(o)

(* observations at both thresholds have been annotated: here the one at 90 *)
C23_Witness ==
  /\ pc["m1"] = "analyzed"
  /\ processed_signals["m1"][1].confidence = 90
  /\ processed_signals["m1"][1].warnings = <<"high_confidence">>

(***************************************************************************)
(* C24: when a re-validation that commits evaluates a LONG or SHORT row in *)
(* entry_hit or active with a price, the stop fires iff the price is at or *)
(* beyond the stop_loss on the losing side (LONG: price <= stop_loss,      *)
(* SHORT: price >= stop_loss), the take-profit iff it is at or beyond the  *)
(* take_profit on the winning side, an absent stop_loss or take_profit     *)
(* never fires, and the row is active afterwards whenever neither fires.   *)
(***************************************************************************)
C24_StopAndTakeThresholds ==
  [][ \A r \in Runners :
        (pc[r] = "validate" /\ pc'[r] = "notify" /\ validation_results'[r].errors = 0) =>
          \A i \in DOMAIN rows :
            LET s == rows[i]
                fetched == gather_current_prices(processed_signals[r])[s.ticker]
                price == IF fetched # 0 THEN fetched ELSE s.current_price
                stop == /\ s.stop_loss # 0
                        /\ IF s.signal_type = "LONG" THEN price <= s.stop_loss
                           ELSE price >= s.stop_loss
                take == /\ s.take_profit # 0
                        /\ IF s.signal_type = "LONG" THEN price >= s.take_profit
                           ELSE price <= s.take_profit
            IN  (/\ s.status \in {"entry_hit", "active"}
                 /\ s.signal_type \in {"LONG", "SHORT"}
                 /\ price # 0) =>
                  /\ rows'[i].status = "sl_hit" <=> stop
                  /\ rows'[i].status = "tp_hit" <=> (take /\ ~stop)
                  /\ rows'[i].status = "active" <=> (~take /\ ~stop) ]_vars

(* a re-validation has left a filled SHORT row active, its price strictly  *)
(* between take_profit and stop_loss, and a LONG row stopped at its stop   *)
C24_Witness ==
  \E r \in Runners :
    /\ pc[r] = "notify"
    /\ validation_results[r].errors = 0
    /\ \E i \in DOMAIN rows :
         /\ rows[i].status = "active"
         /\ rows[i].signal_type = "SHORT"
         /\ rows[i].take_profit < rows[i].current_price
         /\ rows[i].current_price < rows[i].stop_loss

(***************************************************************************)
(* C25: the upsert of a batch leaves every row it found as it was, but for *)
(* current_price and confidence: entry_price, take_profit, stop_loss,      *)
(* direction, status, ticker, timeframe and created_at of a row the batch  *)
(* merged an observation into are what they were before.                   *)
(***************************************************************************)
C25_MergeFrame ==
  [][ \A r \in Runners :
        (pc[r] = "fetch" /\ pc'[r] = "validate") =>
          \A i \in DOMAIN rows :
            /\ i \in DOMAIN rows'
            /\ [rows'[i] EXCEPT !.current_price = 0, !.confidence = 0] =
               [rows[i] EXCEPT !.current_price = 0, !.confidence = 0] ]_vars

(* an observation of the other direction, with other levels and another    *)
(* price, has just been merged into a row, which took its price            *)
C25_Witness ==
  \E r \in Runners : \E i \in DOMAIN rows :
    /\ pc[r] = "validate"
    /\ Len(processed_signals[r]) = 1
    /\ save_results[r].saved_signals = 0
    /\ save_results[r].updated_signals = 1
    /\ SameKey(rows[i], processed_signals[r][1])
    /\ processed_signals[r][1].signal_type # rows[i].signal_type
    /\ processed_signals[r][1].take_profit # rows[i].take_profit
    /\ processed_signals[r][1].stop_loss # rows[i].stop_loss
    /\ processed_signals[r][1].current_price = rows[i].current_price

(* the rows runner r's upsert has inserted, when r is at its re-validation *)
(* and no other cycle has inserted since                                   *)
CreatedBy(r) ==
  {i \in DOMAIN rows : i > Len(rows) - save_results[r].saved_signals}

(***************************************************************************)
(* C26: when a cycle comes to its re-validation the rows its upsert has    *)
(* inserted are in the store with status new, and a re-validation that     *)
(* commits evaluates them with the price the cycle fetched: such a LONG    *)
(* row is entry_hit afterwards when that price is at or below its entry    *)
(* (SHORT: at or above), and takes that price with the change.             *)
(***************************************************************************)
C26_CreatedRowIsEvaluatedInItsCycle ==
  [][ \A r \in Runners :
        ValidateStep(r) =>
          \A i \in CreatedBy(r) :
            LET fetched == gather_current_prices(processed_signals[r])[rows[i].ticker]
                fills == \/ rows[i].signal_type = "LONG" /\ fetched <= rows[i].entry_price
                         \/ rows[i].signal_type = "SHORT" /\ fetched >= rows[i].entry_price
            IN  /\ rows[i].status = "new"
                /\ fetched # 0
                /\ rows'[i].status = IF fills THEN "entry_hit" ELSE "new"
                /\ fills => rows'[i].current_price = to_numeric(fetched) ]_vars

(* a cycle has inserted a LONG row and its re-validation has filled it *)
C26_Witness ==
  \E r \in Runners :
    /\ pc[r] = "notify"
    /\ save_results[r].saved_signals = 1
    /\ validation_results[r].entry_hits = 1
    /\ rows # <<>>
    /\ rows[Len(rows)].signal_type = "LONG"
    /\ rows[Len(rows)].status = "entry_hit"
    /\ rows[Len(rows)].current_price <= rows[Len(rows)].entry_price

(* the prices runner r's cycle fetched for a ticker *)
FetchedFor(r, tk) ==
  {processed_signals[r][k].current_price :
     k \in {j \in DOMAIN processed_signals[r] :
              /\ processed_signals[r][j].ticker = tk
              /\ processed_signals[r][j].current_price # 0}}

(***************************************************************************)
(* C27: a re-validation that commits evaluates every row in new, entry_hit *)
(* or active with the price its cycle fetched for the row's ticker when    *)
(* there is one, else with the row's stored current_price; a row with      *)
(* neither is left exactly as it was.                                      *)
(***************************************************************************)
C27_PriceUsedForEvaluation ==
  [][ \A r \in Runners :
        ValidateStep(r) =>
          \A i \in DOMAIN rows :
            rows[i].status \in {"new", "entry_hit", "active"} =>
              IF FetchedFor(r, rows[i].ticker) # {}
              THEN \E p \in FetchedFor(r, rows[i].ticker) :
                     rows'[i].status = check_signal_execution(rows[i], p)
              ELSE IF rows[i].current_price # 0
              THEN rows'[i].status = check_signal_execution(rows[i], rows[i].current_price)
              ELSE rows'[i] = rows[i] ]_vars

(* a cycle that fetched nothing for BTC has re-validated while a BTC row   *)
(* without a price was in the store, and an ETH row has been filled with   *)
(* the price fetched for ETH                                               *)
C27_Witness ==
  /\ pc["m1"] = "notify"
  /\ validation_results["m1"].errors = 0
  /\ FetchedFor("m1", "BTC") = {}
  /\ \E i \in DOMAIN rows :
       rows[i].ticker = "BTC" /\ rows[i].current_price = 0 /\ rows[i].status = "new"
  /\ \E i \in DOMAIN rows :
       /\ rows[i].ticker = "ETH" /\ rows[i].status = "entry_hit"
       /\ rows[i].current_price \in FetchedFor("m1", "ETH")

(***************************************************************************)
(* C28: the status of a row changes only in the commit of a re-validation, *)
(* and the same commit leaves in the row's current_price the price the row *)
(* was evaluated with, as the column stores it.                            *)
(***************************************************************************)
C28_StatusChangeCarriesPrice ==
  [][ \A i \in DOMAIN rows :
        (i \in DOMAIN rows' /\ rows'[i].status # rows[i].status) =>
          \E r \in Runners :
            /\ ValidateStep(r)
            /\ rows'[i].current_price = to_numeric(PriceSeen(r, rows[i])) ]_vars

(* a row older than the window, which the upsert no longer refreshes, has  *)
(* just been filled by the re-validation of a cycle and holds the price    *)
(* that cycle fetched                                                      *)
C28_Witness ==
  \E r \in Runners : \E i \in DOMAIN rows :
    /\ pc[r] = "notify"
    /\ validation_results[r].entry_hits >= 1
    /\ rows[i].created_at + WindowMinutes < now
    /\ rows[i].status = "entry_hit"
    /\ FetchedFor(r, rows[i].ticker) = {rows[i].current_price}

(* the tickers in the payload of runner r's cycle, known once its upsert   *)
(* has returned; and whether the cycle creates or changes a row of ticker  *)
(* tk: in the upsert, or in the re-validation that follows it              *)
PayloadTickers(signals, results) ==
  {f.ticker : f \in notification_frames(signals, results)}

(***************************************************************************)
(* C29: the payload of a cycle has an instrument only if the cycle created *)
(* or changed (price, confidence or status) at least one of its rows.      *)
(* Stated at the step of the upsert, after which the payload is determined *)
(* and the re-validation, with the prices just fetched, is the only change *)
(* still to come.                                                          *)
(* Violated: when the upsert created or updated anything, the payload has  *)
(* every instrument an observation was fetched for.                        *)
(***************************************************************************)
C29_PayloadOnlyChangedInstruments ==
  [][ \A r \in Runners :
        (pc[r] = "fetch" /\ pc'[r] = "validate") =>
          LET revalidated ==
                validate_active_signals(rows', gather_current_prices(processed_signals'[r]))
          IN  \A tk \in PayloadTickers(processed_signals'[r], save_results'[r]) :
                \E i \in DOMAIN rows' :
                  /\ rows'[i].ticker = tk
                  /\ \/ i \notin DOMAIN rows
                     \/ i \in DOMAIN rows /\ rows'[i] # rows[i]
                     \/ revalidated[i] # rows'[i] ]_vars

ClientError(o) == o.kind = "response" /\ 400 <= o.status_code /\ o.status_code < 500
Retried(o) ==
  \/ o.kind \in {"timeout", "connection"}
  \/ o.kind = "response" /\ o.status_code >= 500

(***************************************************************************)
(* C30: a call of get_multi_signal makes no request after a 4xx response   *)
(* (one request when the first answer is a 4xx), makes another request     *)
(* after a timeout, a connection error or a 5xx response as long as it has *)
(* made fewer than retries + 1, never makes more than retries + 1 (3 with  *)
(* the default), and returns no data unless a request succeeded.           *)
(* Violated: the handler tests the truth of the response of the HTTPError, *)
(* which is false for every error status, so a 4xx is retried like a 5xx.  *)
(***************************************************************************)
C30_RetryPolicy ==
  /\ \A k \in DOMAIN fetch_log : ClientError(fetch_log[k]) => k = Len(fetch_log)
  /\ Len(fetch_log) <= fetch_retries + 1
  /\ fetch_retries = DefaultRetries => Len(fetch_log) <= 3
  /\ fetch_pc = "returned" =>
       /\ fetch_log # <<>>
       /\ Retried(fetch_log[Len(fetch_log)]) => Len(fetch_log) = fetch_retries + 1
       /\ fetch_result = "data" <=>
            LET o == fetch_log[Len(fetch_log)]
            IN  o.kind = "response" /\ o.status_code < 400 /\ o.json

(***************************************************************************)
(* C31: analyze_confidence_warnings returns one observation for each one   *)
(* given, in the same order, each with every field of the one given as it  *)
(* was and warnings besides, and the list given is afterwards what it was. *)
(***************************************************************************)
C31_AnnotatorFrame ==
  [][ \A m \in ManualCallers :
        (pc[m] = "parsed" /\ pc'[m] = "analyzed") =>
          LET given == parsed_signals[m]
              out == processed_signals'[m]
          IN  /\ parsed_signals'[m] = given
              /\ Len(out) = Len(given)
              /\ \A k \in DOMAIN given :
                   /\ DOMAIN out[k] = DOMAIN given[k] \cup {"warnings"}
                   /\ \A f \in DOMAIN given[k] : out[k][f] = given[k][f] ]_vars

(* a main and a correction observation of different direction, levels and  *)
(* confidence have been annotated, the first without a warning             *)
C31_Witness ==
  /\ pc["m1"] = "analyzed"
  /\ Len(parsed_signals["m1"]) = 2
  /\ Len(processed_signals["m1"]) = 2
  /\ parsed_signals["m1"][1].signal_type # parsed_signals["m1"][2].signal_type
  /\ processed_signals["m1"][1].warnings = <<>>
  /\ processed_signals["m1"][2].warnings # <<>>

(***************************************************************************)
(* C32: the lookup of the upsert does not look at the category.  When a    *)
(* batch that is saved has a correction observation and a fresh unresolved *)
(* row of its (ticker, timeframe) is in the store, the batch adds no row   *)
(* of that key and such a row takes the observation's price; when there is *)
(* none but the main observation of the same item comes before it, the one *)
(* row the main observation created serves both.                           *)
(***************************************************************************)
C32_CorrectionMatchesMainRow ==
  [][ \A r \in Runners :
        (pc[r] = "fetch" /\ pc'[r] = "validate") =>
          \A k \in DOMAIN processed_signals'[r] :
            LET batch == processed_signals'[r]
                o == batch[k]
                before == {i \in DOMAIN rows :
                             SameKey(rows[i], o) /\ Unresolved(rows[i]) /\ Fresh(rows[i])}
                created == {i \in DOMAIN rows' \ DOMAIN rows : SameKey(rows'[i], o)}
                main_first == \E j \in 1..(k - 1) :
                                /\ batch[j].ticker = o.ticker
                                /\ batch[j].timeframe = o.timeframe
                                /\ batch[j].signal_category = "main"
            IN  o.signal_category = "correction" =>
                  /\ before # {} =>
                       /\ created = {}
                       /\ \E i \in before : rows'[i].current_price = o.current_price
                  /\ (before = {} /\ main_first) => Cardinality(created) = 1 ]_vars

(* a cycle that fetched a correction alone has merged it into the one row  *)
(* of its key, which an earlier cycle created                              *)
C32_Witness ==
  /\ pc["m1"] = "validate"
  /\ Len(processed_signals["m1"]) = 1
  /\ processed_signals["m1"][1].signal_category = "correction"
  /\ save_results["m1"].saved_signals = 0
  /\ save_results["m1"].updated_signals = 1
  /\ Len(rows) = 1
  /\ SameKey(rows[1], processed_signals["m1"][1])
  /\ rows[1].signal_type # processed_signals["m1"][1].signal_type

(* a new worker thread is started in this step *)
WorkerStarts == pc["worker"] # "started" /\ pc'["worker"] = "started"

(***************************************************************************)
(* C33: once the shutdown request is set no new worker is started, also    *)
(* when stop() ran as the signal handler between two jobs of one           *)
(* run_pending().                                                          *)
(* Violated: _run_signal_processing_job tests the worker thread only, and  *)
(* run_pending() goes on with the jobs that are due after stop() has       *)
(* returned.                                                               *)
(***************************************************************************)
C33_NoWorkerAfterShutdownRequest ==
  [][ shutdown_requested => ~WorkerStarts ]_vars

(* the worker has counted its run in total_runs and not yet recorded how   *)
(* it ended                                                                *)
RunInProgress == pc["worker"] \in {"fetch", "validate", "notify", "returned", "raised"}

(***************************************************************************)
(* C34: total_runs = successful_runs + failed_runs + k in every state,     *)
(* with k = 1 while the worker is between counting its run and recording   *)
(* its end and k = 0 otherwise; the step that records the end of a cycle   *)
(* adds one to exactly one of successful_runs and failed_runs, and leaves  *)
(* last_run_result a success iff it added to successful_runs.              *)
(***************************************************************************)
C34_LedgerBalance ==
  /\ [](total_runs = successful_runs + failed_runs + (IF RunInProgress THEN 1 ELSE 0))
  /\ [][ (RunInProgress /\ ~RunInProgress') =>
           /\ \/ successful_runs' = successful_runs + 1 /\ failed_runs' = failed_runs
              \/ successful_runs' = successful_runs /\ failed_runs' = failed_runs + 1
           /\ last_run_result' = "success" <=> successful_runs' = successful_runs + 1
           /\ last_run_result' \in {"success", "error"} ]_vars

(* a second scheduled cycle is in progress after a first one that failed *)
C34_Witness ==
  /\ pc["worker"] = "validate"
  /\ total_runs = 2
  /\ failed_runs = 1
  /\ successful_runs = 0
  /\ last_run_result = "error"

(***************************************************************************)
(* C35: in every state, of the rows of one (ticker, timeframe) whose       *)
(* status is new, entry_hit or active at most one has created_at within    *)
(* the last 30 minutes, whatever batches were saved and re-validated, a    *)
(* batch with a main and a correction observation of one key included.     *)
(***************************************************************************)
C35_OneFreshUnresolvedRowPerKey ==
  \A i, j \in DOMAIN rows :
    (/\ SameKey(rows[i], rows[j])
     /\ Unresolved(rows[i]) /\ Unresolved(rows[j])
     /\ Fresh(rows[i]) /\ Fresh(rows[j])) => i = j

(* a batch with a main and a correction observation of one key has been    *)
(* saved when the key's earlier row, still unresolved, had left the        *)
(* window: one row was created and serves both observations                *)
C35_Witness ==
  /\ pc["m1"] = "validate"
  /\ Len(processed_signals["m1"]) = 2
  /\ SameKey(processed_signals["m1"][1], processed_signals["m1"][2])
  /\ processed_signals["m1"][2].signal_category = "correction"
  /\ Len(rows) = 2
  /\ SameKey(rows[1], rows[2]) /\ SameKey(rows[2], processed_signals["m1"][1])
  /\ Unresolved(rows[1]) /\ Unresolved(rows[2])
  /\ ~Fresh(rows[1]) /\ Fresh(rows[2])

(***************************************************************************)
(* C36: no step takes a row from new to tp_hit or sl_hit.  A row that is   *)
(* new is new or entry_hit after any step, also when the price that fills  *)
(* it is beyond its stop or its take-profit; a row is inserted as new; a   *)
(* status changes only when a re-validation commits, of which a cycle has  *)
(* one; and a row enters tp_hit or sl_hit from entry_hit or active only,   *)
(* and active from entry_hit only.  So a row in tp_hit or sl_hit was left  *)
(* in entry_hit by the re-validation of an earlier cycle.                  *)
(***************************************************************************)
C36_NoExitWithoutEarlierFill ==
  [][ /\ \A i \in DOMAIN rows' \ DOMAIN rows : rows'[i].status = "new"
      /\ \A i \in DOMAIN rows :
           /\ rows[i].status = "new" => rows'[i].status \in {"new", "entry_hit"}
           /\ rows'[i].status # rows[i].status =>
                /\ \E r \in Runners : ValidateStep(r)
                /\ rows'[i].status \in {"tp_hit", "sl_hit"} =>
                     rows[i].status \in {"entry_hit", "active"}
                /\ rows'[i].status = "active" => rows[i].status = "entry_hit" ]_vars

(* a row was filled at a price at or beyond its stop and was left in       *)
(* entry_hit by that re-validation; a later cycle found the stop hit       *)
C36_Witness ==
  \E i \in DOMAIN rows :
    /\ rows[i].status = "sl_hit"
    /\ rows[i].signal_type = "LONG"
    /\ rows[i].entry_price = 8
    /\ rows[i].stop_loss = 4
    /\ rows[i].current_price = 4
    /\ hist.cycles_started >= 2

(***************************************************************************)
(* C37: a re-validation leaves every field of a row as it was when the     *)
(* row's status stays, current_price included; it never changes            *)
(* entry_price, take_profit, stop_loss, the direction or the confidence of *)
(* a row, and changes nothing of a row in tp_hit or sl_hit; it adds and    *)
(* removes no row.                                                         *)
(***************************************************************************)
C37_RevalidationFrame ==
  [][ \A r \in Runners :
        (pc[r] = "validate" /\ pc'[r] = "notify") =>
          /\ DOMAIN rows' = DOMAIN rows
          /\ \A i \in DOMAIN rows :
               /\ rows'[i].status = rows[i].status => rows'[i] = rows[i]
               /\ rows[i].status \in {"tp_hit", "sl_hit"} => rows'[i] = rows[i]
               /\ rows'[i].entry_price = rows[i].entry_price
               /\ rows'[i].take_profit = rows[i].take_profit
               /\ rows'[i].stop_loss = rows[i].stop_loss
               /\ rows'[i].signal_type = rows[i].signal_type
               /\ rows'[i].confidence = rows[i].confidence ]_vars

(* a re-validation has committed and left an open position open, whose     *)
(* current_price is not the price the row was evaluated with, beside a     *)
(* resolved row                                                            *)
C37_Witness ==
  /\ pc["m1"] = "notify"
  /\ validation_results["m1"].errors = 0
  /\ \E i \in DOMAIN rows :
       /\ rows[i].status = "active"
       /\ PriceSeen("m1", rows[i]) # 0
       /\ PriceSeen("m1", rows[i]) # rows[i].current_price
  /\ \E i \in DOMAIN rows : rows[i].status \in {"tp_hit", "sl_hit"}

(***************************************************************************)
(* C38: when save_signals_batch ends with DatabaseError the store is as it *)
(* was before the batch, and the cycle does nothing more: from the failure *)
(* until the cycle's caller has its error no row changes, no re-validation *)
(* result and no notification is produced.                                 *)
(***************************************************************************)
C38_FailedBatchIsRolledBack ==
  [][ \A r \in Runners :
        /\ (pc[r] = "fetch" /\ pc'[r] = "raised") =>
             /\ rows' = rows
             /\ validation_results'[r] = NoValidation
             /\ notifications_data'[r] = {}
        /\ pc[r] = "raised" =>
             /\ pc'[r] \notin {"validate", "notify", "returned"}
             /\ rows' = rows
             /\ validation_results'[r] = NoValidation
             /\ notifications_data'[r] = {} ]_vars

(* the save of a batch of two observations has failed; the first of them   *)
(* has no row it could be merged into, in a store that has rows of an      *)
(* earlier cycle                                                            *)
C38_Witness ==
  /\ pc["m1"] = "raised"
  /\ cycle_error["m1"] = StoreError
  /\ Len(processed_signals["m1"]) = 2
  /\ rows # <<>>
  /\ find_existing_signal(rows, processed_signals["m1"][1], now) = {}

(***************************************************************************)
(* C39: when a batch that is saved holds a main observation with a known   *)
(* confidence and, after it, a correction observation of the same (ticker, *)
(* timeframe), the key's fresh unresolved row has the confidence of the    *)
(* main observation afterwards.                                            *)
(***************************************************************************)
C39_MergeKeepsMainConfidence ==
  [][ \A r \in Runners :
        SaveStep(r) =>
          LET batch == processed_signals'[r]
          IN  \A j, k \in DOMAIN batch :
                (/\ j < k
                 /\ batch[j].signal_category = "main"
                 /\ batch[k].signal_category = "correction"
                 /\ batch[j].ticker = batch[k].ticker
                 /\ batch[j].timeframe = batch[k].timeframe
                 /\ truthy(batch[j].confidence)) =>
                  \A i \in DOMAIN rows' :
                    (/\ SameKey(rows'[i], batch[j])
                     /\ Unresolved(rows'[i])
                     /\ rows'[i].created_at + WindowMinutes >= now) =>
                      rows'[i].confidence = batch[j].confidence ]_vars

====
